---- MODULE Spec2Model ----
(***************************************************************************)
(* Model of the EPUB translation pipeline of src/trans                     *)
(* (mobi_epub_preserve_format_translate.py; convert_and_translate.py holds *)
(* the same functions): extraction, batch_texts, the concurrent dispatcher *)
(* with its checkpoint log, and the refill of the parsed documents.        *)
(*                                                                         *)
(* Text is a sequence of tokens.  A token is a record [k, s]:              *)
(*   k = "c"    one character of the source book, s = <<id>>               *)
(*   k = "w"    the translation of the segment whose character ids are s   *)
(*   k = "nl"   the character "\n"                                         *)
(*   k = "ls"   U+2028 LINE SEPARATOR (str.splitlines and str.strip treat  *)
(*              it as a line break / white space, json.dumps with          *)
(*              ensure_ascii=False writes it raw)                          *)
(*   k = "dash" the three characters "---"                                 *)
(*   k = "junk" any other non-blank text                                   *)
(***************************************************************************)
EXTENDS Integers, Sequences, FiniteSets, TLC

VARIABLES
    \* ---- one run of translate_epub_texts (lost when the process ends) ----
    pc,               \* position of the main thread
    scen,             \* the run's arguments: book, max_chars, preview_limit, max_workers
    tree,             \* soup_map: the parsed documents, mutated in place by the refill
    parsed,           \* number of documents parsed into soup_map
    texts,            \* texts: the items handed to the batcher
    node_refs,        \* node_refs
    alt_refs,         \* alt_refs
    origin,           \* history: the location that produced texts[i]
    maxChars,         \* max_chars_per_call
    batches,          \* batch_texts(items, max_chars_per_call)
    done,             \* done: batch index -> parts read from the checkpoint log
    outputs_by_batch, \* outputs_by_batch
    poolSize,         \* max_workers after the clamp (0: no pool was made)
    task,             \* per batch index: the future of _translate_one_batch
    collected,        \* futures whose result the as_completed loop has taken
    ckpt_lock,        \* _ckpt_lock: 0 when free, else the batch index of the holder
    translations,     \* the list translate_text_list_concurrent returned
    written,          \* artifacts this run has written
    \* ---- what outlives a run ----
    log,              \* translated_batches.jsonl, as the chunks appended to it
    \* ---- history ----
    result,           \* how the last run ended
    runs,             \* runs started so far
    sameInput,        \* every run so far had the same items and max_chars
    logAtStart,       \* the log as the current run found it
    svc,              \* behaviour of the translation service in this behaviour
    disk,             \* whether an append to the checkpoint file can raise OSError
    \* ---- rezip_epub ----
    src_dir,          \* the working tree: relative path -> bytes of the file
    walked,           \* the files os.walk has yielded so far
    zf,               \* the entries written to the archive, in order
    \* ---- main / cmd_translate: the conversion step ----
    conv,             \* the command line, and what ebook-convert does when it is run
    steps,            \* the steps of the program that have run, in order
    exit,             \* how the process ended
    \* ---- move_pre_cutoff_bigfiles ----
    args,             \* the command line: dry_run, on_conflict, workers
    fs,               \* the file system: source files, destination files, dst_dir
    mtask,            \* the call of task(src) for every candidate file
    \* ---- delete_cr3 ----
    opts,             \* --delete, and what the user types at the prompt
    volume,           \* the entries under ROOT
    files,            \* the list find_cr3_files produced, from the next one on
    removed           \* the entries os.remove has removed

runVars == <<scen, tree, parsed, texts, node_refs, alt_refs, origin, maxChars>>
dispVars == <<batches, done, outputs_by_batch, poolSize, task, collected, ckpt_lock>>
outVars == <<translations, written>>
zipVars == <<src_dir, walked, zf>>
(* the other tools of the repository, which a run of the translator leaves alone *)
convVars == <<conv, steps, exit>>
moveVars == <<args, fs, mtask>>
delVars == <<opts, volume, files, removed>>
toolVars == <<zipVars, convVars, moveVars, delVars>>
histVars == <<runs, sameInput, svc, disk, toolVars>>
vars == <<pc, runVars, dispVars, outVars, log, result, logAtStart, histVars>>

(* no call of rezip_epub under way *)
ZipIdle == src_dir = <<>> /\ walked = {} /\ zf = <<>>
(* no command line under way *)
NoConv == [tool |-> "none", suffix |-> "", skip_convert |-> FALSE, api_key |-> FALSE,
           returncode |-> 0, out |-> [exists |-> FALSE, st_size |-> 0]]
NoExit == [code |-> 0, error |-> "none"]
ConvIdle == conv = NoConv /\ steps = <<>> /\ exit = NoExit
(* no move under way *)
NoArgs == [dry_run |-> FALSE, on_conflict |-> "", workers |-> 0]
NoFs == [src |-> {}, dst |-> <<>>, dst_dir |-> FALSE]
MoveIdle == args = NoArgs /\ fs = NoFs /\ mtask = <<>>
(* no deletion under way *)
NoAnswer == [text |-> "", upper |-> FALSE, padded |-> FALSE]
NoOpts == [delete |-> FALSE, answer |-> NoAnswer]
DelIdle == opts = NoOpts /\ volume = {} /\ files = <<>> /\ removed = {}
ToolsIdle == ZipIdle /\ ConvIdle /\ MoveIdle /\ DelIdle

----------------------------------------------------------------------------
(* Bounds of the pure-function checks *)
MaxFrags == 3
MaxFragLen == 4
MaxBudget == 3

NoScen == [book |-> 0, max_chars |-> 0, preview_limit |-> 0, max_workers |-> 0]

Min(a, b) == IF a < b THEN a ELSE b
Max(a, b) == IF a > b THEN a ELSE b

Chr(n) == [k |-> "c", s |-> <<n>>]

(* The fragment with index f of length n: n characters, each with its own id *)
Frag(f, n) == [j \in 1..n |-> Chr(10 * f + j)]

(* The fragment list whose fragments have the lengths lens *)
FragList(lens) == [f \in 1..Len(lens) |-> Frag(f, lens[f])]

RECURSIVE Flatten(_)
Flatten(ss) == IF ss = <<>> THEN <<>> ELSE Head(ss) \o Flatten(Tail(ss))

----------------------------------------------------------------------------
(* batch_texts *)

(* faulty variant: the over-length fragment sent whole, as one batch *)
SliceWhole(t, max_chars, start) == <<<<t>>>>

(* the while loop of lines 119-123: the slices t[start:end] of an over-length t *)
RECURSIVE SliceLoop(_, _, _)
SliceLoop(t, max_chars, start) ==
    IF start < Len(t)
    THEN LET end == Min(start + max_chars, Len(t))
         IN  <<<<SubSeq(t, start + 1, end)>>>> \o SliceLoop(t, max_chars, end)
    ELSE <<>>

(* the for loop of lines 116-131 from fragment i on, and the final flush *)
RECURSIVE BatchLoop(_, _, _, _, _, _)
BatchLoop(ts, max_chars, i, bs, buf, size) ==
    IF i > Len(ts)
    THEN IF buf # <<>> THEN Append(bs, buf) ELSE bs
    ELSE LET t == ts[i]
             t_len == Len(t)
         IN  IF t_len > max_chars
             THEN BatchLoop(ts, max_chars, i + 1,
                            bs \o SliceLoop(t, max_chars, 0), <<>>, 0)
             ELSE IF size + t_len + 1 > max_chars /\ buf # <<>>
             THEN BatchLoop(ts, max_chars, i + 1, Append(bs, buf), <<t>>, t_len)
             ELSE BatchLoop(ts, max_chars, i + 1, bs, Append(buf, t),
                            size + t_len + 1)

(* faulty variant: the fragments batched from the last to the first *)
BatchTextsReversed(ts, max_chars) ==
    BatchLoop([i \in 1..Len(ts) |-> ts[Len(ts) + 1 - i]], max_chars, 1, <<>>, <<>>, 0)

BatchTexts(ts, max_chars) == BatchLoop(ts, max_chars, 1, <<>>, <<>>, 0)

----------------------------------------------------------------------------
(* SpecBatch: batch_texts applied to every bounded input *)

LenLists == UNION {[1..n -> 1..MaxFragLen] : n \in 0..MaxFrags}

InitBatch ==
    /\ pc = "batch_in"
    /\ \E lens \in LenLists : texts = FragList(lens)
    /\ maxChars \in 1..MaxBudget
    /\ batches = <<>>
    /\ scen = NoScen /\ tree = <<>> /\ parsed = 0
    /\ node_refs = <<>> /\ alt_refs = <<>> /\ origin = <<>>
    /\ done = <<>> /\ outputs_by_batch = <<>> /\ poolSize = 0 /\ task = <<>>
    /\ collected = {} /\ ckpt_lock = 0
    /\ translations = <<>> /\ written = {}
    /\ log = <<>> /\ result = "none"
    /\ runs = 0 /\ sameInput = TRUE /\ logAtStart = <<>> /\ svc = "good" /\ disk = "ok"
    /\ ToolsIdle

CallBatchTexts ==
    /\ pc = "batch_in"
    /\ batches' = BatchTexts(texts, maxChars)
    /\ pc' = "batch_out"
    /\ UNCHANGED <<scen, tree, parsed, texts, node_refs, alt_refs, origin, maxChars>>
    /\ UNCHANGED <<done, outputs_by_batch, poolSize, task, collected, ckpt_lock>>
    /\ UNCHANGED <<outVars, log, result, histVars, logAtStart>>

NextBatch == CallBatchTexts

SpecBatch == InitBatch /\ [][NextBatch]_vars

----------------------------------------------------------------------------
(* Strings: str.strip, str.split("\n---\n"), str.splitlines *)

NL == [k |-> "nl", s |-> <<>>]
LS == [k |-> "ls", s |-> <<>>]
DASH == [k |-> "dash", s |-> <<>>]
JUNK == [k |-> "junk", s |-> <<>>]

IsSpace(c) == c.k \in {"nl", "ls"}

RECURSIVE LStrip(_)
LStrip(t) == IF t # <<>> /\ IsSpace(Head(t)) THEN LStrip(Tail(t)) ELSE t

RECURSIVE RStrip(_)
RStrip(t) ==
    IF t # <<>> /\ IsSpace(t[Len(t)]) THEN RStrip(SubSeq(t, 1, Len(t) - 1)) ELSE t

Strip(t) == RStrip(LStrip(t))

(* out_text.split("\n---\n"): left to right, matches do not overlap *)
RECURSIVE SplitDelimFrom(_, _, _)
SplitDelimFrom(t, i, cur) ==
    IF i > Len(t) THEN <<cur>>
    ELSE IF i + 2 <= Len(t) /\ t[i] = NL /\ t[i + 1] = DASH /\ t[i + 2] = NL
    THEN <<cur>> \o SplitDelimFrom(t, i + 3, <<>>)
    ELSE SplitDelimFrom(t, i + 1, Append(cur, t[i]))

SplitDelim(t) == SplitDelimFrom(t, 1, <<>>)

(* t.splitlines(): "\n" and U+2028 both end a line; no empty last line *)
RECURSIVE SplitLinesFrom(_, _, _)
SplitLinesFrom(t, i, cur) ==
    IF i > Len(t) THEN (IF cur = <<>> THEN <<>> ELSE <<cur>>)
    ELSE IF IsSpace(t[i]) THEN <<cur>> \o SplitLinesFrom(t, i + 1, <<>>)
    ELSE SplitLinesFrom(t, i + 1, Append(cur, t[i]))

SplitLines(t) == SplitLinesFrom(t, 1, <<>>)

MapStrip(ps) == [j \in 1..Len(ps) |-> Strip(ps[j])]

(* [p.strip() for p in lines if p.strip()] *)
NonBlank(ps) == SelectSeq(MapStrip(ps), LAMBDA p : p # <<>>)

HasLS(t) == \E j \in 1..Len(t) : t[j] = LS

----------------------------------------------------------------------------
(* The translation service (a black box): what one request may come back with *)

Ids(seg) == [j \in 1..Len(seg) |-> seg[j].s[1]]

(* the translation of one segment *)
Tr(seg) == [k |-> "w", s |-> Ids(seg)]

Raise == [exc |-> TRUE, text |-> <<>>]
Reply(t) == [exc |-> FALSE, text |-> t]

RECURSIVE JoinWith(_, _)
JoinWith(ps, sep) ==
    IF ps = <<>> THEN <<>>
    ELSE IF Len(ps) = 1 THEN Head(ps)
    ELSE Head(ps) \o sep \o JoinWith(Tail(ps), sep)

(* one translation per segment, separated by lines "---" *)
GoodDelim(batch) ==
    Reply(JoinWith([j \in 1..Len(batch) |-> <<Tr(batch[j])>>], <<NL, DASH, NL>>) \o <<NL>>)
(* one translation per segment, one per line, no "---" *)
GoodLines(batch) ==
    Reply(JoinWith([j \in 1..Len(batch) |-> <<Tr(batch[j])>>], <<NL>>))
(* the translations hold a U+2028 *)
WithLS(batch) ==
    Reply(JoinWith([j \in 1..Len(batch) |-> <<Tr(batch[j]), LS, JUNK>>], <<NL, DASH, NL>>))
(* one segment too many *)
OneMore(batch) == Reply(GoodDelim(batch).text \o <<DASH, NL, JUNK>>)
Blank == Reply(<<NL>>)

ServiceOutcomes(batch) ==
    CASE svc = "good" -> {GoodDelim(batch)}
      [] svc = "ls" -> {WithLS(batch)}
      [] OTHER -> {Raise, Blank, GoodDelim(batch), GoodLines(batch), OneMore(batch)}

ServiceKinds == {"good", "ls", "any"}

(* _translate_one_batch, lines 199-219: the parts accepted from one request,  *)
(* or ok = FALSE when the attempt raises                                    *)
Rejected == [ok |-> FALSE, parts |-> <<>>]

(* faulty variant: the delimiter-split parts taken whatever their number *)
AcceptAnyCount(out, n) ==
    IF out.exc \/ Strip(out.text) = <<>> THEN Rejected
    ELSE [ok |-> TRUE, parts |-> MapStrip(SplitDelim(Strip(out.text)))]

AcceptResponse(out, n) ==
    IF out.exc THEN Rejected
    ELSE LET out_text == Strip(out.text)
             parts == MapStrip(SplitDelim(out_text))
             parts_alt == NonBlank(SplitLines(out_text))
         IN  IF out_text = <<>> THEN Rejected
             ELSE IF Len(parts) # n
             THEN IF Len(parts_alt) = n THEN [ok |-> TRUE, parts |-> parts_alt]
                  ELSE Rejected
             ELSE [ok |-> TRUE, parts |-> parts]

----------------------------------------------------------------------------
(* The checkpoint log.  A record is appended as two chunks, its first bytes   *)
(* ("head") and its last bytes with the "\n" ("tail"): the file is a stream   *)
(* of bytes, and a record is a line of it only when nothing cuts it.          *)

OkRec(i, parts) == [batch |-> i, ok |-> TRUE, parts |-> parts]
FailRec(i) == [batch |-> i, ok |-> FALSE, parts |-> <<>>]
HeadOf(rec) == [h |-> "head", rec |-> rec]
TailOf(rec) == [h |-> "tail", rec |-> rec]
(* the first bytes of a record, ending inside a multi-byte UTF-8 character *)
(* (ensure_ascii=False): what a write cut short by a crash can leave        *)
TornOf(rec) == [h |-> "torn", rec |-> rec]

(* line 256, read_text(encoding="utf-8"): raises UnicodeDecodeError, before *)
(* the try of line 257, when the file holds bytes that are not UTF-8        *)
Torn(lg) == \E j \in 1..Len(lg) : lg[j].h = "torn"

(* read_text().splitlines(), at the "\n" of the tails: the lines as chunk runs *)
RECURSIVE LogLinesFrom(_, _, _)
LogLinesFrom(lg, i, cur) ==
    IF i > Len(lg) THEN (IF cur = <<>> THEN <<>> ELSE <<cur>>)
    ELSE IF lg[i].h = "tail"
    THEN <<Append(cur, lg[i])>> \o LogLinesFrom(lg, i + 1, <<>>)
    ELSE LogLinesFrom(lg, i + 1, Append(cur, lg[i]))

LogLines(lg) == LogLinesFrom(lg, 1, <<>>)

(* A line is the JSON text of a record when it is that record's two chunks     *)
(* and nothing else.  splitlines also cuts at a raw U+2028 inside a part:      *)
(* then no piece of the line is JSON and json.loads raises on each.            *)
IsWhole(line) ==
    /\ Len(line) = 2
    /\ line[1].h = "head" /\ line[2].h = "tail"
    /\ line[1].rec = line[2].rec
Loads(line) ==
    /\ IsWhole(line)
    /\ "parts" \in DOMAIN line[1].rec =>
          \A j \in 1..Len(line[1].rec.parts) : ~HasLS(line[1].rec.parts[j])

(* lines 255-263: done, the last readable ok record with parts of each index; *)
(* a value without .get (AttributeError) or without the keys is passed over  *)
Marks(line) ==
    /\ Loads(line)
    /\ {"batch", "ok", "parts"} \subseteq DOMAIN line[1].rec
    /\ line[1].rec.ok /\ line[1].rec.parts # <<>>

(* dict: the keys in insertion order; d[k] = v keeps the place of an old key *)
DKeys(d) == {d[j].key : j \in 1..Len(d)}
DGet(d, k) == d[CHOOSE j \in 1..Len(d) : d[j].key = k].val
DSet(d, k, v) ==
    IF k \in DKeys(d)
    THEN [j \in 1..Len(d) |-> IF d[j].key = k THEN [key |-> k, val |-> v] ELSE d[j]]
    ELSE Append(d, [key |-> k, val |-> v])

RECURSIVE ReadLines(_, _, _)
ReadLines(lines, j, dn) ==
    IF j > Len(lines) THEN dn
    ELSE ReadLines(lines, j + 1,
                   IF Marks(lines[j])
                   THEN DSet(dn, lines[j][1].rec.batch, lines[j][1].rec.parts)
                   ELSE dn)

(* faulty variant: the batch index of a record taken as a 0-based list index *)
RECURSIVE ReadLinesZeroBased(_, _, _)
ReadLinesZeroBased(lines, j, dn) ==
    IF j > Len(lines) THEN dn
    ELSE ReadLinesZeroBased(lines, j + 1,
                   IF Marks(lines[j])
                   THEN DSet(dn, lines[j][1].rec.batch - 1, lines[j][1].rec.parts)
                   ELSE dn)
ReadCheckpointZeroBased(lg) == ReadLinesZeroBased(LogLines(lg), 1, <<>>)

ReadCheckpoint(lg) == ReadLines(LogLines(lg), 1, <<>>)

(* faulty variant: the mode "w", which empties the file *)
OpenTruncate(lg) == <<>>

(* the mode "a" of checkpoint_path.open: the file as it is, written at its end *)
OpenAppend(lg) == lg

----------------------------------------------------------------------------
(* Books: per document, the lengths of its translatable text nodes (in tree   *)
(* order) and of its img alt texts (in document order)                       *)

Doc(nodes, alts) == [nodes |-> nodes, alts |-> alts]

Books == <<
    \* 1: an alt text in the first document, a text node in the second
    <<Doc(<<2>>, <<2>>), Doc(<<2>>, <<>>)>>,
    \* 2: a short text node, then one longer than max_chars = 2
    <<Doc(<<1, 3>>, <<>>)>>,
    \* 3: nothing to translate
    <<Doc(<<>>, <<>>)>>,
    \* 4: as book 1, with one more text node in the second document
    <<Doc(<<2>>, <<2>>), Doc(<<2, 2>>, <<>>)>>,
    \* 5: three text nodes and an alt text in the first document, none in the second
    <<Doc(<<1, 1, 1>>, <<1>>), Doc(<<>>, <<>>)>> >>

(* the parsed tree of book b: every node and alt holds its source text *)
ParseDocs(docs) ==
    [d \in 1..Len(docs) |->
        [nodes |-> [i \in 1..Len(docs[d].nodes) |-> Frag(10 * d + i, docs[d].nodes[i])],
         alts |-> [i \in 1..Len(docs[d].alts) |-> Frag(10 * d + 5 + i, docs[d].alts[i])]]]
ParseBook(b) == ParseDocs(Books[b])

Loc(d, kind, i) == [d |-> d, kind |-> kind, i |-> i]
At(tr, loc) == IF loc.kind = "node" THEN tr[loc.d].nodes[loc.i] ELSE tr[loc.d].alts[loc.i]
Put(tr, loc, v) ==
    IF loc.kind = "node" THEN [tr EXCEPT ![loc.d].nodes[loc.i] = v]
    ELSE [tr EXCEPT ![loc.d].alts[loc.i] = v]

(* The runs: arguments of translate_epub_texts *)
Scen(b, mc, pl, mw) == [book |-> b, max_chars |-> mc, preview_limit |-> pl, max_workers |-> mw]

(* explored with every service, failing requests included *)
ScenariosAny == {
    Scen(1, 6, 0, 30),    \* two batches, the first of two segments; 25 workers
    Scen(1, 6, 0, 0),     \* the same input, one worker
    Scen(3, 6, 0, 10) }   \* no fragment

(* explored with the services that answer every request the same way *)
ScenariosDet == ScenariosAny \cup {
    Scen(1, 3, 1, 0),     \* preview of the first fragment: one batch
    Scen(4, 6, 3, 0),     \* preview of three fragments of four, over two documents
    Scen(2, 2, 0, -1),    \* an over-length fragment: two slices
    Scen(5, 9, 0, 0) }    \* four fragments of one document in one batch

----------------------------------------------------------------------------
(* translate_epub_texts, lines 339-360: the extraction loop *)

(* faulty variant: the loop never breaks *)
TakeAll(n, j, total, preview_limit) == n - j + 1

(* how many of items[j..] a loop "append; total += 1; break at the limit" takes *)
RECURSIVE TakeLoop(_, _, _, _)
TakeLoop(n, j, total, preview_limit) ==
    IF j > n THEN 0
    ELSE IF preview_limit # 0 /\ total + 1 >= preview_limit THEN 1
    ELSE 1 + TakeLoop(n, j + 1, total + 1, preview_limit)

NoExtract == [texts |-> <<>>, node_refs |-> <<>>, alt_refs |-> <<>>, origin |-> <<>>,
              parsed |-> 0]

RECURSIVE ExtractLoop(_, _, _, _)
ExtractLoop(tr, d, acc, preview_limit) ==
    IF d > Len(tr) THEN acc
    ELSE LET nn == TakeLoop(Len(tr[d].nodes), 1, Len(acc.texts), preview_limit)
             nrefs == [i \in 1..nn |-> Loc(d, "node", i)]
             total1 == Len(acc.texts) + nn
             na == IF preview_limit = 0 \/ total1 < preview_limit
                   THEN TakeLoop(Len(tr[d].alts), 1, total1, preview_limit)
                   ELSE 0
             arefs == [i \in 1..na |-> Loc(d, "alt", i)]
             acc2 == [texts |-> acc.texts \o [i \in 1..nn |-> tr[d].nodes[i]]
                                          \o [i \in 1..na |-> tr[d].alts[i]],
                      node_refs |-> acc.node_refs \o nrefs,
                      alt_refs |-> acc.alt_refs \o arefs,
                      origin |-> acc.origin \o nrefs \o arefs,
                      parsed |-> d]
         IN  IF preview_limit # 0 /\ total1 + na >= preview_limit THEN acc2
             ELSE ExtractLoop(tr, d + 1, acc2, preview_limit)

Extract(tr, preview_limit) == ExtractLoop(tr, 1, NoExtract, preview_limit)

(* lines 390-407: the two refill loops, from reference j with t_i used so far *)
RECURSIVE RefillLoop(_, _, _, _, _, _)
RefillLoop(tr, refs, j, t_i, trans, limit) ==
    IF j > Len(refs) \/ t_i >= limit THEN [tree |-> tr, t_i |-> t_i]
    ELSE RefillLoop(Put(tr, refs[j], trans[t_i + 1]), refs, j + 1, t_i + 1, trans, limit)

(* faulty variant: the loop over the alt texts left out *)
RefillNodesOnly(tr, nrefs, arefs, trans, limit) ==
    RefillLoop(tr, nrefs, 1, 0, trans, limit).tree

Refill(tr, nrefs, arefs, trans, limit) ==
    LET a == RefillLoop(tr, nrefs, 1, 0, trans, limit)
    IN  RefillLoop(a.tree, arefs, 1, a.t_i, trans, limit).tree

(* line 269 *)
MaxPool == 25
(* faulty variant: the floor of one worker forgotten *)
ClampNoFloor(max_workers) == Min(max_workers, MaxPool)

ClampWorkers(max_workers) == Max(1, Min(max_workers, MaxPool))

(* line 385 *)
MaxRetries == 7

----------------------------------------------------------------------------
(* Spec: runs of translate_epub_texts, one after the other, over one log     *)

MaxRuns == 2

NoTask == [st |-> "none", attempt |-> 0, parts |-> <<>>]
Running == {"call", "sleep", "ok_lock", "ok_write", "fail_lock", "fail_write"}
Terminal == {"none", "done", "exhausted"}

Pending == {i \in DOMAIN task : task[i].st # "none"}
InFlight == {i \in DOMAIN task : task[i].st \in Running}
Queued == {i \in DOMAIN task : task[i].st = "queued"}

InputOf(s) == <<Extract(ParseBook(s.book), s.preview_limit).texts, s.max_chars>>

Init ==
    /\ pc = "idle"
    /\ scen = NoScen /\ tree = <<>> /\ parsed = 0
    /\ texts = <<>> /\ node_refs = <<>> /\ alt_refs = <<>> /\ origin = <<>>
    /\ maxChars = 0
    /\ batches = <<>> /\ done = <<>> /\ outputs_by_batch = <<>> /\ poolSize = 0
    /\ task = <<>> /\ collected = {} /\ ckpt_lock = 0
    /\ translations = <<>> /\ written = {}
    /\ log = <<>> /\ result = "none"
    /\ runs = 0 /\ sameInput = TRUE /\ logAtStart = <<>>
    /\ svc \in ServiceKinds /\ disk = "ok"
    /\ ToolsIdle

ResetDispatch ==
    /\ batches' = <<>> /\ done' = <<>> /\ outputs_by_batch' = <<>> /\ poolSize' = 0
    /\ task' = <<>> /\ collected' = {} /\ ckpt_lock' = 0

EndRun(r) == pc' = "idle" /\ result' = r /\ logAtStart' = <<>>

(* lines 326-360: unzip, parse, extract *)
StartRun(s) ==
    /\ pc = "idle" /\ runs < MaxRuns
    /\ LET tr == ParseBook(s.book)
           e == Extract(tr, s.preview_limit)
       IN  /\ tree' = tr /\ parsed' = e.parsed
           /\ texts' = e.texts /\ node_refs' = e.node_refs /\ alt_refs' = e.alt_refs
           /\ origin' = e.origin
    /\ scen' = s /\ maxChars' = s.max_chars
    /\ sameInput' = (runs = 0 \/ (sameInput /\ InputOf(s) = InputOf(scen)))
    /\ ResetDispatch
    /\ translations' = <<>> /\ written' = {}
    /\ runs' = runs + 1 /\ logAtStart' = log
    /\ pc' = "selftest" /\ result' = "running"
    /\ UNCHANGED <<log, svc, disk, toolVars>>

(* faulty variant: the run goes on to the dispatcher without fragments *)
SelfTestOkNoShortcut ==
    /\ pc = "selftest"
    /\ written' = written \cup {"selftest"}
    /\ pc' = "translate"
    /\ UNCHANGED <<runVars, dispVars, translations, log, result, histVars, logAtStart>>

(* lines 362-373: openai_self_test returned text *)
SelfTestOk ==
    /\ pc = "selftest"
    /\ written' = written \cup {"selftest"}
    /\ pc' = IF texts = <<>> THEN "rezip_unmodified" ELSE "translate"
    /\ UNCHANGED <<runVars, dispVars, translations, log, result, histVars, logAtStart>>

(* faulty variant: the failure of the health check caught, the run goes on *)
SelfTestFailIgnored ==
    /\ pc = "selftest" /\ svc = "any"
    /\ pc' = IF texts = <<>> THEN "rezip_unmodified" ELSE "translate"
    /\ UNCHANGED <<runVars, dispVars, outVars, log, result, histVars, logAtStart>>

(* openai_self_test raised, or the text was blank *)
SelfTestFail ==
    /\ pc = "selftest" /\ svc = "any"
    /\ EndRun("HealthCheckFailed")
    /\ UNCHANGED <<runVars, dispVars, outVars, log, histVars>>

(* lines 366-373 *)
RezipUnmodified ==
    /\ pc = "rezip_unmodified"
    /\ written' = written \cup {IF scen.preview_limit = 0 THEN "translated_epub"
                                ELSE "preview_epub"}
    /\ EndRun("noop")
    /\ UNCHANGED <<runVars, dispVars, translations, log, histVars>>

(* faulty variant: every index pending, whatever the checkpoint holds *)
PendingAll(n, dn) == 1..n

(* line 265: pending_idx *)
PendingIdx(n, dn) == {i \in 1..n : i \notin DKeys(dn)}

(* translate_text_list_concurrent, lines 251-284: batch, read the checkpoint, *)
(* submit every pending index to the pool                                    *)
BeginTranslate ==
    /\ pc = "translate" /\ ~Torn(log)
    /\ LET bs == BatchTexts(texts, maxChars)
           dn == ReadCheckpoint(log)
           pending_idx == PendingIdx(Len(bs), dn)
       IN  /\ batches' = bs /\ done' = dn /\ outputs_by_batch' = dn
           /\ task' = [i \in 1..Len(bs) |->
                          IF i \in pending_idx THEN [NoTask EXCEPT !.st = "queued"]
                          ELSE NoTask]
           /\ poolSize' = IF pending_idx # {} THEN ClampWorkers(scen.max_workers) ELSE 0
           /\ pc' = IF pending_idx # {} THEN "collect" ELSE "rebuild"
    /\ UNCHANGED <<runVars, collected, ckpt_lock, outVars, log, result, histVars, logAtStart>>

(* faulty variant: after the error the pool starts no queued work item *)
StartTaskUntilFailure(i) ==
    /\ pc = "collect"
    /\ i \in Queued /\ \A j \in Queued : i <= j
    /\ Cardinality(InFlight) < poolSize
    /\ task' = [task EXCEPT ![i] = [st |-> "call", attempt |-> 1, parts |-> <<>>]]
    /\ UNCHANGED <<pc, runVars, batches, done, outputs_by_batch, poolSize, collected,
                   ckpt_lock, outVars, log, result, histVars, logAtStart>>

(* a pool thread takes the oldest queued work item: attempt 1 sends its request *)
StartTask(i) ==
    /\ pc \in {"collect", "shutdown"}
    /\ i \in Queued /\ \A j \in Queued : i <= j
    /\ Cardinality(InFlight) < poolSize
    /\ task' = [task EXCEPT ![i] = [st |-> "call", attempt |-> 1, parts |-> <<>>]]
    /\ UNCHANGED <<pc, runVars, batches, done, outputs_by_batch, poolSize, collected,
                   ckpt_lock, outVars, log, result, histVars, logAtStart>>

(* lines 199-219: the request of the current attempt comes back *)
Respond(i) ==
    /\ i \in DOMAIN task /\ task[i].st = "call"
    /\ \E out \in ServiceOutcomes(batches[i]) :
          LET r == AcceptResponse(out, Len(batches[i]))
          IN  task' = [task EXCEPT ![i].st = IF r.ok THEN "ok_lock" ELSE "sleep",
                                   ![i].parts = r.parts]
    /\ UNCHANGED <<pc, runVars, batches, done, outputs_by_batch, poolSize, collected,
                   ckpt_lock, outVars, log, result, histVars, logAtStart>>

(* lines 227-230 and 197: the backoff sleep ends; next attempt, or out of the loop *)
(* faulty variant: one attempt more than max_retries *)
HasNextAttemptInclusive(attempt) == attempt <= MaxRetries

(* line 197, for attempt in range(1, max_retries + 1): another value follows *)
HasNextAttempt(attempt) == attempt < MaxRetries

WakeUp(i) ==
    /\ i \in DOMAIN task /\ task[i].st = "sleep"
    /\ task' = IF HasNextAttempt(task[i].attempt)
               THEN [task EXCEPT ![i].st = "call", ![i].attempt = @ + 1]
               ELSE [task EXCEPT ![i].st = "fail_lock"]
    /\ UNCHANGED <<pc, runVars, batches, done, outputs_by_batch, poolSize, collected,
                   ckpt_lock, outVars, log, result, histVars, logAtStart>>

(* faulty variant: the record of a failure, whatever the worker holds *)
RecOfFailure(i) == FailRec(i)

RecOf(i) == IF task[i].st \in {"ok_lock", "ok_write"} THEN OkRec(i, task[i].parts)
            ELSE FailRec(i)

(* faulty variant: the append made without taking the lock *)
LockIgnored(i) == TRUE

(* with _ckpt_lock *)
LockFree(i) == ckpt_lock = 0

(* lines 222-224 and 234-236: take the lock, open for append, first bytes *)
BeginAppend(i) ==
    /\ i \in DOMAIN task /\ task[i].st \in {"ok_lock", "fail_lock"}
    /\ LockFree(i)
    /\ ckpt_lock' = i
    /\ log' = Append(OpenAppend(log), HeadOf(RecOf(i)))
    /\ task' = [task EXCEPT ![i].st = IF @ = "ok_lock" THEN "ok_write" ELSE "fail_write"]
    /\ UNCHANGED <<pc, runVars, batches, done, outputs_by_batch, poolSize, collected,
                   outVars, result, histVars, logAtStart>>

(* last bytes and "\n", close, release; return the parts or raise (line 237) *)
EndAppend(i) ==
    /\ i \in DOMAIN task /\ task[i].st \in {"ok_write", "fail_write"}
    /\ log' = Append(log, TailOf(RecOf(i)))
    /\ ckpt_lock' = IF ckpt_lock = i THEN 0 ELSE ckpt_lock
    /\ task' = [task EXCEPT ![i].st = IF @ = "ok_write" THEN "done" ELSE "exhausted",
                            ![i].attempt = 0]
    /\ UNCHANGED <<pc, runVars, batches, done, outputs_by_batch, poolSize, collected,
                   outVars, result, histVars, logAtStart>>

(* faulty variant: the loop over the futures leaves after the first of them *)
FirstCollected(c) == c # {}

(* line 286: as_completed(futures) is exhausted *)
AllCollected(c) == c = Pending

(* lines 286-289: as_completed yields a future that returned *)
CollectResult(i) ==
    /\ pc = "collect"
    /\ i \in Pending \ collected /\ task[i].st = "done"
    /\ outputs_by_batch' = DSet(outputs_by_batch, i, task[i].parts)
    /\ collected' = collected \cup {i}
    /\ pc' = IF AllCollected(collected') THEN "rebuild" ELSE "collect"
    /\ UNCHANGED <<runVars, batches, done, poolSize, task, ckpt_lock, outVars, log,
                   result, histVars, logAtStart>>

(* faulty variant: the error of the future swallowed, the loop goes on *)
CollectSwallow(i) ==
    /\ pc = "collect"
    /\ i \in Pending \ collected /\ task[i].st = "exhausted"
    /\ collected' = collected \cup {i}
    /\ pc' = IF collected' = Pending THEN "rebuild" ELSE "collect"
    /\ UNCHANGED <<runVars, batches, done, outputs_by_batch, poolSize, task, ckpt_lock,
                   outVars, log, result, histVars, logAtStart>>

(* line 287: fut.result() raises; the with block's exit waits for the pool *)
CollectRaise(i) ==
    /\ pc = "collect"
    /\ i \in Pending \ collected /\ task[i].st = "exhausted"
    /\ pc' = "shutdown"
    /\ UNCHANGED <<runVars, dispVars, outVars, log, result, histVars, logAtStart>>

(* faulty variant: shutdown(wait=False), the error leaves at once *)
ShutdownNoWait ==
    /\ pc = "shutdown"
    /\ EndRun("BatchExhausted")
    /\ UNCHANGED <<runVars, dispVars, outVars, log, histVars>>

(* ThreadPoolExecutor.__exit__: shutdown(wait=True) returns, the error leaves *)
ShutdownDone ==
    /\ pc = "shutdown"
    /\ \A i \in DOMAIN task : task[i].st \in Terminal
    /\ EndRun("BatchExhausted")
    /\ UNCHANGED <<runVars, dispVars, outVars, log, histVars>>

(* lines 292-298: the parts of batch 1..n, or raise when one has none *)
HasAllOutputs(n, obb) == \A i \in 1..n : i \in DKeys(obb) /\ DGet(obb, i) # <<>>
(* faulty variant: the values of the dict in insertion order, which is completion order *)
RebuildInsertionOrder(n, obb) == Flatten([j \in 1..Len(obb) |-> obb[j].val])

RebuildOutputs(n, obb) == Flatten([i \in 1..n |-> DGet(obb, i)])

Rebuild ==
    /\ pc = "rebuild"
    /\ IF HasAllOutputs(Len(batches), outputs_by_batch)
       THEN /\ translations' = RebuildOutputs(Len(batches), outputs_by_batch)
            /\ pc' = "assert" /\ UNCHANGED <<result, logAtStart>>
       ELSE /\ EndRun("MissingBatch") /\ UNCHANGED translations
    /\ UNCHANGED <<runVars, dispVars, written, log, histVars>>

(* faulty variant: the assertion not evaluated *)
AssertCountSkipped ==
    /\ pc = "assert"
    /\ pc' = "refill"
    /\ UNCHANGED <<runVars, dispVars, outVars, log, result, histVars, logAtStart>>

(* line 388 *)
AssertCount ==
    /\ pc = "assert"
    /\ IF Len(translations) = Len(texts)
       THEN pc' = "refill" /\ UNCHANGED <<result, logAtStart>>
       ELSE EndRun("AssertionError")
    /\ UNCHANGED <<runVars, dispVars, outVars, log, histVars>>

(* lines 390-407 *)
RefillStep ==
    /\ pc = "refill"
    /\ LET limit == IF scen.preview_limit = 0 THEN Len(texts) ELSE scen.preview_limit
       IN  tree' = Refill(tree, node_refs, alt_refs, translations, limit)
    /\ pc' = "writeback"
    /\ UNCHANGED <<scen, parsed, texts, node_refs, alt_refs, origin, maxChars,
                   dispVars, outVars, log, result, histVars, logAtStart>>

(* lines 409-411 *)
WriteBack ==
    /\ pc = "writeback"
    /\ written' = written \cup {"documents"}
    /\ pc' = "rezip"
    /\ UNCHANGED <<runVars, dispVars, translations, log, result, histVars, logAtStart>>

(* lines 413-425 *)
Rezip ==
    /\ pc = "rezip"
    /\ written' = written \cup (IF scen.preview_limit > 0 THEN {"preview_epub", "tsv"}
                                ELSE {"translated_epub"})
    /\ EndRun("ok")
    /\ UNCHANGED <<runVars, dispVars, translations, log, histVars>>

(* the process dies: only the log is left, with the bytes written so far *)
Crash ==
    /\ pc # "idle"
    /\ EndRun("crashed")
    /\ tree' = <<>> /\ parsed' = 0
    /\ texts' = <<>> /\ node_refs' = <<>> /\ alt_refs' = <<>> /\ origin' = <<>>
    /\ ResetDispatch
    /\ translations' = <<>> /\ written' = {}
    /\ UNCHANGED <<scen, maxChars, log, histVars>>

Next ==
    \/ \E s \in (IF svc = "any" THEN ScenariosAny ELSE ScenariosDet) : StartRun(s)
    \/ SelfTestOk \/ SelfTestFail \/ RezipUnmodified
    \/ BeginTranslate
    \/ \E i \in DOMAIN task : StartTask(i)
    \/ \E i \in DOMAIN task : Respond(i)
    \/ \E i \in DOMAIN task : WakeUp(i)
    \/ \E i \in DOMAIN task : BeginAppend(i)
    \/ \E i \in DOMAIN task : EndAppend(i)
    \/ \E i \in DOMAIN task : CollectResult(i)
    \/ \E i \in DOMAIN task : CollectRaise(i)
    \/ ShutdownDone
    \/ Rebuild \/ AssertCount \/ RefillStep \/ WriteBack \/ Rezip
    \/ Crash

Spec == Init /\ [][Next]_vars

----------------------------------------------------------------------------
(* SpecLive: one run that is not killed, over a log that is empty or holds    *)
(* the record of batch 2 of an earlier run; every service call comes back,    *)
(* and a thread that can take a step is not left waiting forever              *)

LiveLogs == { <<>>,
              <<HeadOf(OkRec(2, <<<<Tr(Frag(21, 2))>>>>)),
                TailOf(OkRec(2, <<<<Tr(Frag(21, 2))>>>>))>> }

InitLive ==
    /\ pc = "idle"
    /\ scen = NoScen /\ tree = <<>> /\ parsed = 0
    /\ texts = <<>> /\ node_refs = <<>> /\ alt_refs = <<>> /\ origin = <<>>
    /\ maxChars = 0
    /\ batches = <<>> /\ done = <<>> /\ outputs_by_batch = <<>> /\ poolSize = 0
    /\ task = <<>> /\ collected = {} /\ ckpt_lock = 0
    /\ translations = <<>> /\ written = {}
    /\ log \in LiveLogs /\ result = "none"
    /\ runs = 0 /\ sameInput = TRUE /\ logAtStart = <<>>
    /\ svc \in ServiceKinds /\ disk = "ok"
    /\ ToolsIdle

NextLive ==
    \/ \E s \in (IF svc = "any" THEN ScenariosAny ELSE ScenariosDet) : runs = 0 /\ StartRun(s)
    \/ SelfTestOk \/ SelfTestFail \/ RezipUnmodified
    \/ BeginTranslate
    \/ \E i \in DOMAIN task : StartTask(i)
    \/ \E i \in DOMAIN task : Respond(i)
    \/ \E i \in DOMAIN task : WakeUp(i)
    \/ \E i \in DOMAIN task : BeginAppend(i)
    \/ \E i \in DOMAIN task : EndAppend(i)
    \/ \E i \in DOMAIN task : CollectResult(i)
    \/ \E i \in DOMAIN task : CollectRaise(i)
    \/ ShutdownDone
    \/ Rebuild \/ AssertCount \/ RefillStep \/ WriteBack \/ Rezip

(* the pool threads and the thread of as_completed *)
Fairness ==
    /\ WF_vars(\E i \in DOMAIN task : StartTask(i))
    /\ WF_vars(\E i \in DOMAIN task : Respond(i))
    /\ WF_vars(\E i \in DOMAIN task : WakeUp(i))
    /\ WF_vars(\E i \in DOMAIN task : BeginAppend(i))
    /\ WF_vars(\E i \in DOMAIN task : EndAppend(i))
    /\ WF_vars(\E i \in DOMAIN task : CollectResult(i))
    /\ WF_vars(\E i \in DOMAIN task : CollectRaise(i))
    /\ WF_vars(ShutdownDone)
    /\ WF_vars(Rebuild)

SpecLive == InitLive /\ [][NextLive]_vars /\ Fairness

----------------------------------------------------------------------------
(* SpecResume: one run over a checkpoint file that holds, besides records of  *)
(* batch 2, lines that are no record of a finished batch                     *)

WholeLine(rec) == <<HeadOf(rec), TailOf(rec)>>
GoodRec == OkRec(2, <<<<Tr(Frag(21, 2))>>>>)
LinesOfLog == {
    <<>>,
    WholeLine(GoodRec),                          \* a finished batch
    WholeLine(FailRec(2)),                       \* ok false
    WholeLine(OkRec(2, <<>>)),                   \* empty parts list
    WholeLine([array |-> <<>>]),                 \* JSON, not an object
    WholeLine([ok |-> TRUE, parts |-> GoodRec.parts]),   \* no batch index
    <<HeadOf(GoodRec)>>,                         \* cut between two characters
    <<TornOf(GoodRec)>> }                        \* cut inside a character
ResumeLogs == {l1 \o l2 : l1 \in LinesOfLog, l2 \in LinesOfLog}

InitResume ==
    /\ pc = "idle"
    /\ scen = NoScen /\ tree = <<>> /\ parsed = 0
    /\ texts = <<>> /\ node_refs = <<>> /\ alt_refs = <<>> /\ origin = <<>>
    /\ maxChars = 0
    /\ batches = <<>> /\ done = <<>> /\ outputs_by_batch = <<>> /\ poolSize = 0
    /\ task = <<>> /\ collected = {} /\ ckpt_lock = 0
    /\ translations = <<>> /\ written = {}
    /\ log \in ResumeLogs /\ result = "none"
    /\ runs = 0 /\ sameInput = TRUE /\ logAtStart = <<>>
    /\ svc \in ServiceKinds /\ disk = "ok"
    /\ ToolsIdle

(* line 256: read_text raises, outside every try: the run ends *)
CheckpointUnreadable ==
    /\ pc = "translate" /\ Torn(log)
    /\ EndRun("UnicodeDecodeError")
    /\ UNCHANGED <<runVars, dispVars, outVars, log, histVars>>

NextResume == NextLive \/ CheckpointUnreadable

SpecResume == InitResume /\ [][NextResume]_vars

----------------------------------------------------------------------------
(* SpecIO: one run that is not killed, on a disk where the append of a        *)
(* checkpoint record can raise OSError (no space left, no permission)         *)

InitIO ==
    /\ pc = "idle"
    /\ scen = NoScen /\ tree = <<>> /\ parsed = 0
    /\ texts = <<>> /\ node_refs = <<>> /\ alt_refs = <<>> /\ origin = <<>>
    /\ maxChars = 0
    /\ batches = <<>> /\ done = <<>> /\ outputs_by_batch = <<>> /\ poolSize = 0
    /\ task = <<>> /\ collected = {} /\ ckpt_lock = 0
    /\ translations = <<>> /\ written = {}
    /\ log \in LiveLogs /\ result = "none"
    /\ runs = 0 /\ sameInput = TRUE /\ logAtStart = <<>>
    /\ svc \in ServiceKinds /\ disk \in {"ok", "faulty"}
    /\ ToolsIdle

(* line 222 inside the try, line 234 after the loop: open(checkpoint_path,    *)
(* "a") raises and nothing reaches the file.  For the ok=true record the     *)
(* except branch of line 227 catches the error and the worker goes to the    *)
(* backoff of a failed attempt; for the ok=false record the error leaves     *)
(* the worker.                                                              *)
AppendRaises(i) ==
    /\ disk = "faulty"
    /\ i \in DOMAIN task /\ task[i].st \in {"ok_lock", "fail_lock"}
    /\ LockFree(i)
    /\ task' = IF task[i].st = "ok_lock"
               THEN [task EXCEPT ![i].st = "sleep"]
               ELSE [task EXCEPT ![i].st = "exhausted", ![i].attempt = 0]
    /\ UNCHANGED <<pc, runVars, batches, done, outputs_by_batch, poolSize, collected,
                   ckpt_lock, outVars, log, result, histVars, logAtStart>>

NextIO == NextLive \/ \E i \in DOMAIN task : AppendRaises(i)

SpecIO == InitIO /\ [][NextIO]_vars

----------------------------------------------------------------------------
(* SpecExtract: the extraction loop (lines 339-360) applied to every bounded  *)
(* list of documents and every preview limit                                 *)

MaxDocs == 2
MaxNodes == 2
MaxPreview == 4

(* a document with n text nodes and a alt texts, of one character each *)
DocOf(n, a) == Doc([i \in 1..n |-> 1], [i \in 1..a |-> 1])
DocLists ==
    UNION { [1..k -> {DocOf(n, a) : n \in 0..MaxNodes, a \in 0..MaxNodes}] : k \in 0..MaxDocs }

InitExtract ==
    /\ pc = "extract_in"
    /\ \E docs \in DocLists : tree = ParseDocs(docs)
    /\ \E k \in 0..MaxPreview : scen = [NoScen EXCEPT !.preview_limit = k]
    /\ parsed = 0
    /\ texts = <<>> /\ node_refs = <<>> /\ alt_refs = <<>> /\ origin = <<>>
    /\ maxChars = 0
    /\ batches = <<>> /\ done = <<>> /\ outputs_by_batch = <<>> /\ poolSize = 0
    /\ task = <<>> /\ collected = {} /\ ckpt_lock = 0
    /\ translations = <<>> /\ written = {}
    /\ log = <<>> /\ result = "none"
    /\ runs = 0 /\ sameInput = TRUE /\ logAtStart = <<>> /\ svc = "good" /\ disk = "ok"
    /\ ToolsIdle

CallExtract ==
    /\ pc = "extract_in"
    /\ LET e == Extract(tree, scen.preview_limit)
       IN  /\ parsed' = e.parsed
           /\ texts' = e.texts /\ node_refs' = e.node_refs /\ alt_refs' = e.alt_refs
           /\ origin' = e.origin
    /\ pc' = "extract_out"
    /\ UNCHANGED <<scen, tree, maxChars, dispVars, outVars, log, result, logAtStart,
                   histVars>>

NextExtract == CallExtract

SpecExtract == InitExtract /\ [][NextExtract]_vars

----------------------------------------------------------------------------
(* SpecZip: rezip_epub (lines 72-84) applied to every bounded working tree    *)

(* the translator at rest *)
PipelineIdle ==
    /\ scen = NoScen /\ tree = <<>> /\ parsed = 0
    /\ texts = <<>> /\ node_refs = <<>> /\ alt_refs = <<>> /\ origin = <<>>
    /\ maxChars = 0
    /\ batches = <<>> /\ done = <<>> /\ outputs_by_batch = <<>> /\ poolSize = 0
    /\ task = <<>> /\ collected = {} /\ ckpt_lock = 0
    /\ translations = <<>> /\ written = {}
    /\ log = <<>> /\ result = "none"
    /\ runs = 0 /\ sameInput = TRUE /\ logAtStart = <<>> /\ svc = "good" /\ disk = "ok"
pipelineVars == <<runVars, dispVars, outVars, log, result, logAtStart, runs, sameInput, svc,
                  disk>>
notZip == <<pipelineVars, convVars, moveVars, delVars>>
notConv == <<pipelineVars, zipVars, moveVars, delVars>>
notMove == <<pipelineVars, zipVars, convVars, delVars>>
notDel == <<pipelineVars, zipVars, convVars, moveVars>>

(* relative paths, as their components *)
MIMETYPE == <<"mimetype">>
OtherFiles == { <<"content.opf">>, <<"OEBPS", "ch1.xhtml">>, <<"OEBPS", "mimetype">> }

(* the bytes of a top-level mimetype file: none, ASCII text, text ending in    *)
(* "\r\n", bytes that are not UTF-8                                          *)
MimetypeBytes == {"empty", "ascii", "crlf", "bad_utf8"}

Trees ==
    { [p \in others \cup mt |-> IF p = MIMETYPE THEN b ELSE "data"] :
        others \in SUBSET OtherFiles, mt \in {{}, {MIMETYPE}}, b \in MimetypeBytes }

(* Path.read_text(encoding="utf-8"): decoding raises on bytes that are not     *)
(* UTF-8, and the text mode turns "\r\n" into "\n"                           *)
ReadTextRaises(b) == b = "bad_utf8"
ReadText(b) == IF b = "crlf" THEN "lf" ELSE b

Entry(name, method, data) == [name |-> name, method |-> method, data |-> data]

InitZip ==
    /\ pc = "rezip_in"
    /\ src_dir \in Trees /\ walked = {} /\ zf = <<>>
    /\ PipelineIdle /\ ConvIdle /\ MoveIdle /\ DelIdle

(* lines 74-77: the archive is opened for writing, mimetype goes in first *)
WriteMimetype ==
    /\ pc = "rezip_in"
    /\ IF MIMETYPE \in DOMAIN src_dir
       THEN IF ReadTextRaises(src_dir[MIMETYPE])
            THEN pc' = "rezip_raised" /\ zf' = <<>>
            ELSE /\ zf' = <<Entry(MIMETYPE, "ZIP_STORED", ReadText(src_dir[MIMETYPE]))>>
                 /\ pc' = "rezip_walk"
       ELSE pc' = "rezip_walk" /\ zf' = <<>>
    /\ UNCHANGED <<src_dir, walked, notZip>>

(* os.walk, top down: the files of the root before those of a directory below *)
WalkNext(p) ==
    /\ p \in DOMAIN src_dir \ walked
    /\ Len(p) = 1 \/ \A q \in DOMAIN src_dir \ walked : Len(q) > 1

(* line 82: str(rel) == "mimetype" *)
SkipInWalk(rel) == rel = MIMETYPE

(* lines 78-84: one file of the walk *)
WalkFile(p) ==
    /\ pc = "rezip_walk"
    /\ WalkNext(p)
    /\ walked' = walked \cup {p}
    /\ zf' = IF SkipInWalk(p) THEN zf
             ELSE Append(zf, Entry(p, "ZIP_DEFLATED", src_dir[p]))
    /\ UNCHANGED <<pc, src_dir, notZip>>

(* the walk is over, the archive is closed *)
WalkDone ==
    /\ pc = "rezip_walk"
    /\ walked = DOMAIN src_dir
    /\ pc' = "rezip_out"
    /\ UNCHANGED <<zipVars, notZip>>

NextZip ==
    \/ WriteMimetype
    \/ \E p \in OtherFiles \cup {MIMETYPE} : WalkFile(p)
    \/ WalkDone

SpecZip == InitZip /\ [][NextZip]_vars

----------------------------------------------------------------------------
(* SpecConv: the command line of the two translators up to and after the      *)
(* conversion step: main (mobi_epub_preserve_format_translate.py, 429-475)    *)
(* with mobi_to_epub (51-66), and cmd_translate (convert_and_translate.py,    *)
(* 365-398)                                                                   *)

Tools == {"mobi_epub_preserve_format_translate", "convert_and_translate"}
Suffixes == {".mobi", ".epub", ".txt"}
(* exit status of ebook-convert: success, failure, killed by a signal *)
ReturnCodes == {0, 1, -9}
(* the output path after the converter has ended: no file, empty, with content *)
OutFiles == { [exists |-> FALSE, st_size |-> 0],
              [exists |-> TRUE, st_size |-> 0],
              [exists |-> TRUE, st_size |-> 5] }

(* what runs after the conversion, in the order of the code *)
LaterSteps == <<"credential", "unpack", "extraction", "health_check", "dispatch", "repack">>

InitConv ==
    /\ pc = "main_in"
    /\ conv \in [tool : Tools, suffix : Suffixes, skip_convert : BOOLEAN,
                  api_key : BOOLEAN, returncode : ReturnCodes, out : OutFiles]
    /\ steps = <<>> /\ exit = NoExit
    /\ PipelineIdle /\ ZipIdle /\ MoveIdle /\ DelIdle

(* faulty variant: only the exit status of the converter is looked at *)
ReturnCodeOnly(returncode, out) == returncode = 0

(* lines 63-66 (and 379-384 of cmd_translate): neither error is raised *)
ConversionOk(returncode, out) ==
    /\ ~(returncode # 0)
    /\ ~(~out.exists \/ out.st_size = 0)

(* the fatal error of the conversion: RuntimeError out of main, sys.exit(2) *)
(* in cmd_translate                                                        *)
ConversionFailed ==
    [code |-> IF conv.tool = "convert_and_translate" THEN 2 ELSE 1,
     error |-> "ConversionFailed"]

(* lines 449-457: convert when the input is .mobi and --skip-convert is not  *)
(* given; otherwise the input has to be .epub                                *)
MainConvert ==
    /\ pc = "main_in"
    /\ IF conv.suffix = ".mobi" /\ ~conv.skip_convert
       THEN /\ steps' = <<"convert">>
            /\ IF ConversionOk(conv.returncode, conv.out)
               THEN pc' = "main_translate" /\ UNCHANGED exit
               ELSE pc' = "main_exit" /\ exit' = ConversionFailed
       ELSE /\ UNCHANGED steps
            /\ IF conv.suffix # ".epub"
               THEN pc' = "main_exit" /\ exit' = [code |-> 1, error |-> "UnsupportedInput"]
               ELSE pc' = "main_translate" /\ UNCHANGED exit
    /\ UNCHANGED <<conv, notConv>>

(* the step of LaterSteps that comes next *)
NextStep == LaterSteps[Len(SelectSeq(steps, LAMBDA x : x # "convert")) + 1]

(* lines 321-323 (387-390): the step "credential" without OPENAI_API_KEY *)
MissingCredential ==
    /\ pc = "main_translate"
    /\ NextStep = "credential" /\ ~conv.api_key
    /\ steps' = Append(steps, NextStep)
    /\ pc' = "main_exit"
    /\ exit' = [code |-> IF conv.tool = "convert_and_translate" THEN 2 ELSE 1,
                error |-> "MissingCredential"]
    /\ UNCHANGED <<conv, notConv>>

(* lines 362-364: openai_self_test raises *)
HealthCheckRaises ==
    /\ pc = "main_translate"
    /\ NextStep = "health_check"
    /\ steps' = Append(steps, NextStep)
    /\ pc' = "main_exit"
    /\ exit' = [code |-> 1, error |-> "HealthCheckFailed"]
    /\ UNCHANGED <<conv, notConv>>

(* a step of translate_epub_texts runs to its end; after the repack the     *)
(* program is over                                                         *)
RunStep ==
    /\ pc = "main_translate"
    /\ NextStep = "credential" => conv.api_key
    /\ steps' = Append(steps, NextStep)
    /\ pc' = IF NextStep = "repack" THEN "main_exit" ELSE "main_translate"
    /\ UNCHANGED <<conv, exit, notConv>>

NextConv == MainConvert \/ MissingCredential \/ HealthCheckRaises \/ RunStep

SpecConv == InitConv /\ [][NextConv]_vars

----------------------------------------------------------------------------
(* SpecMove: move_pre_cutoff_bigfiles.py, main (290-329) and transfer_all     *)
(* (117-172) over a flat destination: every candidate is one call of task,    *)
(* run by a pool of max(1, workers) threads; every look at the file system    *)
(* and every change of it is one step                                        *)

MaxWorkers == 2

(* candidate files of the date folders; two of them have the same name *)
SrcFiles == { [dir |-> "2023-01-01", stem |-> "a"],
              [dir |-> "2023-01-02", stem |-> "a"],
              [dir |-> "2023-01-01", stem |-> "b"] }

(* the destination path dst_root / (stem + "_" + n + suffix); n = 0 is the   *)
(* name without a number                                                    *)
DstPath(stem, n) == [stem |-> stem, n |-> n]

(* what the destination can hold before the run *)
OldFiles == { DstPath("a", 0), DstPath("a", 1) }

(* the content of a file that was at the destination before the run *)
OldContent == [dir |-> "dest", stem |-> "old"]

Policies == {"skip", "overwrite", "rename"}

NoMTask == [st |-> "queued", planned |-> DstPath("", 0), target |-> DstPath("", 0),
            i |-> 0, ok |-> FALSE]

InitMove ==
    /\ pc = "move_in"
    /\ args \in [dry_run : BOOLEAN, on_conflict : Policies, workers : 1..MaxWorkers]
    /\ \E old \in SUBSET OldFiles, dd \in BOOLEAN, cands \in SUBSET SrcFiles :
          /\ fs = [src |-> SrcFiles, dst |-> [q \in old |-> OldContent],
                   dst_dir |-> (dd \/ old # {})]
          /\ mtask = [f \in cands |-> NoMTask]
    /\ PipelineIdle /\ ZipIdle /\ ConvIdle /\ DelIdle

(* main, line 301: dst_dir.mkdir(parents=True, exist_ok=True); then the     *)
(* candidates are submitted to the pool                                     *)
MainMkdir ==
    /\ pc = "move_in"
    /\ fs' = [fs EXCEPT !.dst_dir = TRUE]
    /\ pc' = "move_run"
    /\ UNCHANGED <<args, mtask, notMove>>

Exists(q) == q \in DOMAIN fs.dst
Unlink(dst, q) == [r \in DOMAIN dst \ {q} |-> dst[r]]
(* shutil.move onto target: os.rename replaces a file that is there *)
Rename(dst, q, c) == [r \in DOMAIN dst \cup {q} |-> IF r = q THEN c ELSE dst[r]]

Busy == {f \in DOMAIN mtask : mtask[f].st \notin {"queued", "done"}}

(* a thread of the pool takes a work item: build_destination_path, flat *)
TaskStart(f) ==
    /\ pc = "move_run"
    /\ mtask[f].st = "queued"
    /\ Cardinality(Busy) < Max(1, args.workers)
    /\ mtask' = [mtask EXCEPT ![f].st = "resolve", ![f].planned = DstPath(f.stem, 0)]
    /\ UNCHANGED <<pc, args, fs, notMove>>

(* resolve_conflict, lines 193-208 *)
ResolveConflict(f) ==
    /\ pc = "move_run"
    /\ mtask[f].st = "resolve"
    /\ LET dest_path == mtask[f].planned
       IN  IF ~Exists(dest_path)
           THEN /\ mtask' = [mtask EXCEPT ![f].st = "act", ![f].target = dest_path]
                /\ UNCHANGED fs
           ELSE IF args.on_conflict = "skip"
           THEN /\ mtask' = [mtask EXCEPT ![f].st = "done", ![f].ok = FALSE]
                /\ UNCHANGED fs
           ELSE IF args.on_conflict = "overwrite"
           THEN /\ fs' = [fs EXCEPT !.dst = Unlink(@, dest_path)]
                /\ mtask' = [mtask EXCEPT ![f].st = "act", ![f].target = dest_path]
           ELSE /\ mtask' = [mtask EXCEPT ![f].st = "unique", ![f].i = 0]
                /\ UNCHANGED fs
    /\ UNCHANGED <<pc, args, notMove>>

(* generate_unique_path, lines 44-53: one exists() of dst (i = 0) or of the  *)
(* candidate with number i                                                  *)
GenerateUniquePath(f) ==
    /\ pc = "move_run"
    /\ mtask[f].st = "unique"
    /\ LET candidate == DstPath(mtask[f].planned.stem, mtask[f].i)
       IN  mtask' = IF ~Exists(candidate)
                    THEN [mtask EXCEPT ![f].st = "act", ![f].target = candidate]
                    ELSE [mtask EXCEPT ![f].i = @ + 1]
    /\ UNCHANGED <<pc, args, fs, notMove>>

(* line 147: if dry_run *)
DryRun == args.dry_run

(* lines 147-153: print in a dry run, otherwise mkdir and shutil.move *)
Transfer(f) ==
    /\ pc = "move_run"
    /\ mtask[f].st = "act"
    /\ IF DryRun
       THEN UNCHANGED fs
       ELSE fs' = [fs EXCEPT !.dst_dir = TRUE,
                             !.src = @ \ {f},
                             !.dst = Rename(@, mtask[f].target, f)]
    /\ mtask' = [mtask EXCEPT ![f].st = "done", ![f].ok = TRUE]
    /\ UNCHANGED <<pc, args, notMove>>

(* lines 160-172: every future has been collected *)
TransferDone ==
    /\ pc = "move_run"
    /\ \A f \in DOMAIN mtask : mtask[f].st = "done"
    /\ pc' = "move_out"
    /\ UNCHANGED <<moveVars, notMove>>

NextMove ==
    \/ MainMkdir
    \/ \E f \in DOMAIN mtask : TaskStart(f)
    \/ \E f \in DOMAIN mtask : ResolveConflict(f)
    \/ \E f \in DOMAIN mtask : GenerateUniquePath(f)
    \/ \E f \in DOMAIN mtask : Transfer(f)
    \/ TransferDone

SpecMove == InitMove /\ [][NextMove]_vars

----------------------------------------------------------------------------
(* SpecDel: delete_cr3.py, main (26-64) with find_cr3_files (20-24)           *)

(* a string is its lower-case text, whether it has upper-case letters, and    *)
(* whether it has white space around it; a suffix is never padded            *)
Str(text, upper, padded) == [text |-> text, upper |-> upper, padded |-> padded]
StrLower(x) == [x EXCEPT !.upper = FALSE]
StrStrip(x) == [x EXCEPT !.padded = FALSE]

(* what can be under ROOT: regular files, a directory and a symbolic link to  *)
(* a regular file, with their names                                          *)
Entries == {
    [name |-> "x", suffix |-> Str(".cr3", FALSE, FALSE), kind |-> "file"],
    [name |-> "y", suffix |-> Str(".cr3", TRUE, FALSE), kind |-> "file"],
    [name |-> "z", suffix |-> Str(".jpg", FALSE, FALSE), kind |-> "file"],
    [name |-> "d", suffix |-> Str(".cr3", FALSE, FALSE), kind |-> "dir"],
    [name |-> "l", suffix |-> Str(".cr3", FALSE, FALSE), kind |-> "symlink"] }

Answers == [text : {"yes", "y", "no", ""}, upper : BOOLEAN, padded : BOOLEAN]

(* Path.is_file() follows a symbolic link *)
IsFile(p) == p.kind \in {"file", "symlink"}

(* line 23: p.suffix.lower() == ".cr3" *)
IsCr3(p) == StrLower(p.suffix) = Str(".cr3", FALSE, FALSE)

(* find_cr3_files, lines 20-24 *)
FindCr3Files(root) == {p \in root : IsFile(p) /\ IsCr3(p)}

(* the lists that hold every element of S once: rglob fixes no order *)
Listings(S) ==
    {l \in [1..Cardinality(S) -> S] : \A i, j \in 1..Cardinality(S) : l[i] = l[j] => i = j}

InitDel ==
    /\ pc = "del_in"
    /\ opts \in [delete : BOOLEAN, answer : Answers]
    /\ volume \in SUBSET Entries
    /\ files = <<>> /\ removed = {}
    /\ PipelineIdle /\ ZipIdle /\ ConvIdle /\ MoveIdle

(* lines 39-51 and 60-64: list; nothing found, or no --delete, ends the run;  *)
(* with --delete the answer is asked for                                     *)
ListFiles ==
    /\ pc = "del_in"
    /\ files' \in Listings(FindCr3Files(volume))
    /\ pc' = IF files' = <<>> THEN "del_out"
             ELSE IF opts.delete THEN "del_confirm" ELSE "del_out"
    /\ UNCHANGED <<opts, volume, removed, notDel>>

(* faulty variant: the answer is not looked at *)
AnyAnswer(answer) == TRUE

(* lines 48-49: input(...).strip().lower() is "yes" *)
Confirmed(answer) == StrLower(StrStrip(answer)) = Str("yes", FALSE, FALSE)

Confirm ==
    /\ pc = "del_confirm"
    /\ pc' = IF Confirmed(opts.answer) THEN "del_loop" ELSE "del_out"
    /\ UNCHANGED <<delVars, notDel>>

(* lines 53-56: os.remove(f) of the next file of the list *)
Remove ==
    /\ pc = "del_loop" /\ files # <<>>
    /\ volume' = volume \ {Head(files)}
    /\ removed' = removed \cup {Head(files)}
    /\ files' = Tail(files)
    /\ UNCHANGED <<pc, opts, notDel>>

(* lines 57-58: os.remove raises, the error is printed and the loop goes on *)
RemoveRaises ==
    /\ pc = "del_loop" /\ files # <<>>
    /\ files' = Tail(files)
    /\ UNCHANGED <<pc, opts, volume, removed, notDel>>

(* line 59: the loop is over *)
RemoveDone ==
    /\ pc = "del_loop" /\ files = <<>>
    /\ pc' = "del_out"
    /\ UNCHANGED <<delVars, notDel>>

NextDel == ListFiles \/ Confirm \/ Remove \/ RemoveRaises \/ RemoveDone

SpecDel == InitDel /\ [][NextDel]_vars

----------------------------------------------------------------------------
(* The segments the batches must hold: every fragment in order, an          *)
(* over-length fragment replaced by its contiguous slices                   *)
SlicesOf(t, max_chars) ==
    LET n == (Len(t) + max_chars - 1) \div max_chars
    IN  [j \in 1..n |-> SubSeq(t, (j - 1) * max_chars + 1, Min(j * max_chars, Len(t)))]

RECURSIVE ExpectedSegments(_, _)
ExpectedSegments(ts, max_chars) ==
    IF ts = <<>> THEN <<>>
    ELSE (IF Len(Head(ts)) > max_chars THEN SlicesOf(Head(ts), max_chars)
          ELSE <<Head(ts)>>) \o ExpectedSegments(Tail(ts), max_chars)

(* C1: the segments of all batches of batch_texts, concatenated in batch    *)
(* order, are the input fragments in order, only over-length fragments      *)
(* replaced by their slices; nothing is dropped, duplicated or reordered.   *)
C1_FlattenReproducesFragments ==
    pc = "batch_out" => Flatten(batches) = ExpectedSegments(texts, maxChars)

----------------------------------------------------------------------------
(* Claims about the runs *)

(* translate_text_list_concurrent has read the checkpoint of the current run *)
Dispatching == pc \in {"collect", "shutdown", "rebuild", "assert", "refill",
                       "writeback", "rezip"}
(* translate_text_list_concurrent has returned its list *)
Returned == pc \in {"assert", "refill", "writeback", "rezip"}

Limit == IF scen.preview_limit = 0 THEN Len(texts) ELSE scen.preview_limit

(* C2: after the refill, the location that produced fragment i holds          *)
(* translations[i], for every i below the limit, whatever the documents.      *)
C2_RefillWritesOwnTranslation ==
    pc \in {"writeback", "rezip"} =>
        \A i \in 1..Len(origin) : i <= Limit => At(tree, origin[i]) = translations[i]

(* the system has appended the whole ok=true record of batch i to lg *)
WroteOk(lg, i) ==
    \E j \in 2..Len(lg) :
        /\ lg[j].h = "tail" /\ lg[j].rec.ok /\ lg[j].rec.batch = i
        /\ lg[j - 1] = HeadOf(lg[j].rec)

(* C3: a batch index is dispatched in a run if and only if the log, as the    *)
(* run found it, holds no ok=true record for it.                            *)
C3_DispatchedIffNoOkRecord ==
    Dispatching =>
        \A i \in 1..Len(batches) : (task[i].st # "none") <=> ~WroteOk(logAtStart, i)

(* what a service that answers every request for a batch the same way returns *)
ServiceParts(batch) ==
    AcceptResponse(CHOOSE o \in ServiceOutcomes(batch) : TRUE, Len(batch)).parts
Uninterrupted(ts, max_chars) ==
    LET bs == BatchTexts(ts, max_chars)
    IN  Flatten([i \in 1..Len(bs) |-> ServiceParts(bs[i])])

(* C4: with a service that is a function of the batch, over runs of the same  *)
(* items and max_chars, any of them cut short, the list a run returns is the  *)
(* list one uninterrupted run returns.                                       *)
C4_ResumeEqualsUninterrupted ==
    (svc # "any" /\ sameInput /\ Returned) =>
        translations = Uninterrupted(texts, maxChars)

(* a run that resumed: some batches came from the log, the others were sent *)
C4_Resumed ==
    /\ svc # "any" /\ sameInput /\ Returned
    /\ DKeys(done) # {} /\ Pending # {}

(* the whole records of lg for batch index i, oldest first *)
WholeRecs(lg, i) ==
    SelectSeq(LogLines(lg), LAMBDA line : IsWhole(line) /\ line[1].rec.batch = i)
LastIsMatchingOk(lg, i, n) ==
    LET rs == WholeRecs(lg, i)
    IN  /\ rs # <<>>
        /\ rs[Len(rs)][1].rec.ok
        /\ Len(rs[Len(rs)][1].rec.parts) = n

(* C5: on resume a batch is done if and only if the last record of its index  *)
(* has ok=true and as many parts as the batch has segments.                  *)
C5_DoneIffLastRecordMatches ==
    Dispatching =>
        \A i \in 1..Len(batches) :
            (i \in DKeys(done)) <=> LastIsMatchingOk(logAtStart, i, Len(batches[i]))

OkTails(i) == {j \in 1..Len(log) : log[j].h = "tail" /\ log[j].rec.ok /\ log[j].rec.batch = i}

(* C6: over runs of the same items and max_chars, crashes included, the log   *)
(* never holds two ok=true records of one batch index.                       *)
C6_NoSecondOkRecord ==
    sameInput => \A j \in 1..Len(log) : Cardinality(OkTails(log[j].rec.batch)) <= 1

(* the parts of batch i: those its request returned in this run, else those   *)
(* of the checkpoint                                                        *)
PartsOf(i) == IF task[i].st = "done" THEN task[i].parts ELSE DGet(done, i)

(* C7: the returned list is the parts of batch 1, 2, ..., N in that order,    *)
(* in whatever order the batches completed.                                 *)
C7_OutputInBatchOrder ==
    pc = "assert" => translations = Flatten([i \in 1..Len(batches) |-> PartsOf(i)])

(* batch 2 completed before batch 1 in this run *)
C7_CompletedOutOfOrder ==
    /\ pc = "assert"
    /\ \E j, k \in (Len(logAtStart) + 1)..Len(log) :
          /\ j < k /\ log[j].h = "tail" /\ log[k].h = "tail"
          /\ log[j].rec.batch = 2 /\ log[k].rec.batch = 1
          /\ log[j].rec.ok /\ log[k].rec.ok

Writers == {i \in DOMAIN task : task[i].st \in {"ok_write", "fail_write"}}

(* C8: at most one worker is inside the append section, and what the run has  *)
(* appended is whole records, one after the other: each head is followed by   *)
(* its own tail, or is the last chunk and its writer is still in the section. *)
C8_AppendsSerialized ==
    pc # "idle" =>
        /\ Cardinality(Writers) <= 1
        /\ \A j \in (Len(logAtStart) + 1)..Len(log) :
              IF log[j].h = "head"
              THEN IF j < Len(log) THEN log[j + 1] = TailOf(log[j].rec)
                   ELSE Writers = {log[j].rec.batch}
              ELSE j > Len(logAtStart) + 1 /\ log[j - 1] = HeadOf(log[j].rec)

(* one worker writes an ok=false record while another waits to write ok=true *)
C8_Contended ==
    \E i, j \in DOMAIN task : task[i].st = "fail_write" /\ task[j].st = "ok_lock"

(* C9: every step leaves the old content of the log as a prefix of the new.   *)
C9_LogOnlyGrows ==
    [][Len(log') >= Len(log) /\ SubSeq(log', 1, Len(log)) = log]_vars

(* a run that found records in the log fails on an exhausted batch *)
C9_FatalRunOverOldLog ==
    pc = "shutdown" /\ logAtStart # <<>> /\ Len(log) > Len(logAtStart)

(* C10: the pool has min(max(requested, 1), 25) workers, and the batches in   *)
(* flight are never more than 25 nor more than that.                         *)
C10_PoolClamped ==
    pc \in {"collect", "shutdown"} =>
        /\ poolSize = Min(Max(scen.max_workers, 1), MaxPool)
        /\ Cardinality(InFlight) <= poolSize
        /\ Cardinality(InFlight) <= MaxPool

(* zero workers requested: one batch in flight, the other waits in the queue *)
C10_OneWorkerBusy ==
    /\ pc = "collect" /\ scen.max_workers = 0
    /\ Cardinality(InFlight) = 1 /\ Queued # {}

(* what the acceptance rule asks of a response to a batch of n segments *)
Acceptable(out, n) ==
    /\ ~out.exc
    /\ Strip(out.text) # <<>>
    /\ \/ Len(SplitDelim(Strip(out.text))) = n
       \/ Len(NonBlank(SplitLines(Strip(out.text)))) = n

(* the parts a worker holds after an accepted response, and the parts of the  *)
(* ok=true records the run has appended, are one per segment of the batch     *)
PartsMatchSegments ==
    pc # "idle" =>
        /\ \A i \in DOMAIN task :
              task[i].st \in {"ok_lock", "ok_write", "done"} =>
                  Len(task[i].parts) = Len(batches[i])
        /\ \A j \in (Len(logAtStart) + 1)..Len(log) :
              log[j].rec.ok => /\ log[j].rec.batch \in DOMAIN batches
                               /\ Len(log[j].rec.parts) = Len(batches[log[j].rec.batch])

(* a request that comes back is accepted when the service gave an acceptable  *)
(* response, and otherwise goes to the backoff of a failed attempt            *)
AcceptedOnlyIfAcceptable ==
    \A i \in DOMAIN task :
        (task[i].st = "call" /\ i \in DOMAIN task' /\ task'[i].st \in {"ok_lock", "sleep"}) =>
            \E out \in ServiceOutcomes(batches[i]) :
                /\ (task'[i].st = "ok_lock") <=> Acceptable(out, Len(batches[i]))
                /\ task'[i].st = "ok_lock" =>
                       task'[i].parts \in {MapStrip(SplitDelim(Strip(out.text))),
                                           NonBlank(SplitLines(Strip(out.text)))}

(* C11: a response is accepted only if it is non-empty and its delimiter-split *)
(* count or else its non-empty-line count is the batch's segment count; any     *)
(* other is a failed attempt.  Accepted and checkpointed parts lists have       *)
(* exactly one part per segment.                                               *)
C11_AcceptanceRule ==
    []PartsMatchSegments /\ [][AcceptedOnlyIfAcceptable]_vars

(* a two-segment batch accepted on a later attempt, after a failed one *)
C11_AcceptedAfterFailure ==
    \E i \in DOMAIN task :
        task[i].st = "ok_write" /\ task[i].attempt >= 2 /\ Len(batches[i]) = 2

(* attempt is the number of requests the batch has issued in this run *)
RequestsWithinBudget ==
    \A i \in DOMAIN task :
        /\ task[i].attempt <= MaxRetries
        /\ task[i].st \in {"call", "sleep", "ok_lock", "ok_write"} => task[i].attempt >= 1
        /\ task[i].st \in {"fail_lock", "fail_write"} => task[i].attempt = MaxRetries

(* a request is the first of a queued batch, or follows a failed attempt while *)
(* fewer than max_retries were made; the loop is left for the ok=false record  *)
(* only by the failure of attempt max_retries                                 *)
RetryOnlyWithinBudget ==
    \A i \in DOMAIN task :
        i \in DOMAIN task' =>
            /\ (task[i].st # "call" /\ task'[i].st = "call") =>
                  \/ task[i].st = "queued" /\ task'[i].attempt = 1
                  \/ /\ task[i].st = "sleep" /\ task[i].attempt < MaxRetries
                     /\ task'[i].attempt = task[i].attempt + 1
            /\ (task[i].st # "fail_lock" /\ task'[i].st = "fail_lock") =>
                  task[i].st = "sleep" /\ task[i].attempt = MaxRetries
            /\ (task[i].st = task'[i].st) => task'[i].attempt = task[i].attempt

(* C12: in one run a dispatched batch issues at most max_retries (7) requests; *)
(* a failed attempt is retried only while fewer than max_retries were made,    *)
(* and the batch is exhausted only after exactly max_retries failed attempts.  *)
C12_AtMostMaxRetriesRequests ==
    []RequestsWithinBudget /\ [][RetryOnlyWithinBudget]_vars

(* a batch whose seventh request failed writes its ok=false record *)
C12_SeventhAttemptFailed ==
    \E i \in DOMAIN task : task[i].st = "fail_write" /\ task[i].attempt = 7

(* the whole ok=false record of batch i is in the log *)
WroteFail(lg, i) ==
    \E j \in 2..Len(lg) : lg[j] = TailOf(FailRec(i)) /\ lg[j - 1] = HeadOf(FailRec(i))

(* C13: once a batch has exhausted its attempts, its ok=false record is in    *)
(* the log and the run can only fail: the parsed documents stay as parsed, no  *)
(* document, translated or preview archive is written, and there is no         *)
(* translated list, whatever the other batches returned.                       *)
C13_ExhaustedBatchFailsRun ==
    \A i \in DOMAIN task :
        task[i].st = "exhausted" =>
            /\ WroteFail(log, i)
            /\ pc \in {"collect", "shutdown", "idle"}
            /\ pc = "idle" => result = "BatchExhausted"
            /\ tree = ParseBook(scen.book)
            /\ written \subseteq {"selftest"}
            /\ translations = <<>>

(* the run has failed on an exhausted batch while another batch succeeded *)
C13_FailedWithOneDone ==
    /\ pc = "idle" /\ result = "BatchExhausted"
    /\ \E i, j \in DOMAIN task : task[i].st = "exhausted" /\ task[j].st = "done"

(* C14: when the run fails on an exhausted batch, every submitted batch has    *)
(* reached its own end, DONE with its ok=true record in the log or EXHAUSTED   *)
(* with its ok=false record; none was cancelled, queued or in flight.          *)
C14_SiblingsRunToTerminal ==
    (pc = "idle" /\ result = "BatchExhausted") =>
        \A i \in Pending :
            \/ task[i].st = "done" /\ WroteOk(log, i)
            \/ task[i].st = "exhausted" /\ WroteFail(log, i)

(* one worker: batch 1 exhausted its attempts, and batch 2, which could only   *)
(* start after it, still ran and succeeded before the failure left             *)
C14_SiblingFinishedAfterExhaustion ==
    /\ pc = "idle" /\ result = "BatchExhausted" /\ poolSize = 1
    /\ Pending = {1, 2} /\ task[1].st = "exhausted" /\ task[2].st = "done"

(* nothing of a run precedes its health check; every later position of the     *)
(* run has the health check's text file behind it                             *)
HealthCheckFirst ==
    /\ pc = "selftest" => task = <<>> /\ log = logAtStart /\ written = {}
    /\ pc \notin {"idle", "selftest"} => "selftest" \in written
    /\ (\E i \in DOMAIN task : task[i].st # "none") => "selftest" \in written
    /\ (pc = "idle" /\ result = "HealthCheckFailed") =>
           task = <<>> /\ written = {} /\ translations = <<>>

(* the step of a failed health check ends the run and touches nothing *)
HealthCheckFailureAborts ==
    (pc = "selftest" /\ result' = "HealthCheckFailed") =>
        pc' = "idle" /\ log' = log /\ written' = {} /\ task' = <<>>

(* C15: in every run the health check succeeds before the first batch request; *)
(* when it raises or returns nothing, the run ends with no batch attempted,     *)
(* no record appended and no archive written.                                  *)
C15_HealthCheckBeforeBatches ==
    []HealthCheckFirst /\ [][HealthCheckFailureAborts]_vars

(* the second run over a book with fragments and a log with records fails its  *)
(* health check                                                               *)
C15_HealthCheckFailed ==
    /\ pc = "idle" /\ result = "HealthCheckFailed"
    /\ runs = 2 /\ scen.book = 1 /\ log # <<>>

(* the state of a batch in the run.  A worker that holds an accepted response  *)
(* is still inside its attempt until the record is appended and it returns;    *)
(* after the failure of attempt max_retries the batch is exhausted.            *)
BatchState(t) ==
    CASE t.st = "queued" -> "PENDING"
      [] t.st \in {"call", "ok_lock", "ok_write"} -> "IN_FLIGHT"
      [] t.st = "sleep" /\ t.attempt < MaxRetries -> "FAILED_RETRYABLE"
      [] t.st = "sleep" /\ t.attempt >= MaxRetries -> "EXHAUSTED"
      [] t.st \in {"fail_lock", "fail_write", "exhausted"} -> "EXHAUSTED"
      [] t.st \in {"none", "done"} -> "DONE"

Edges == { <<"PENDING", "IN_FLIGHT">>, <<"IN_FLIGHT", "DONE">>,
           <<"IN_FLIGHT", "FAILED_RETRYABLE">>, <<"FAILED_RETRYABLE", "IN_FLIGHT">>,
           <<"IN_FLIGHT", "EXHAUSTED">> }

OnlyEdges ==
    \A i \in DOMAIN task :
        i \in DOMAIN task' =>
            \/ BatchState(task'[i]) = BatchState(task[i])
            \/ <<BatchState(task[i]), BatchState(task'[i])>> \in Edges

DoneAtStartStaysDone ==
    \A i \in DOMAIN task : i \in DKeys(done) => BatchState(task[i]) = "DONE"

(* C16: within a run a batch moves only PENDING -> IN_FLIGHT, IN_FLIGHT ->     *)
(* DONE, IN_FLIGHT -> FAILED_RETRYABLE, FAILED_RETRYABLE -> IN_FLIGHT and      *)
(* IN_FLIGHT -> EXHAUSTED; DONE and EXHAUSTED are never left, and a batch the  *)
(* checkpoint marks done at the start of the run is DONE throughout.           *)
C16_BatchStateMachine ==
    []DoneAtStartStaysDone /\ [][OnlyEdges]_vars

(* one batch done from the checkpoint, the other exhausted in this run *)
C16_DoneAtStartAndExhausted ==
    \E i, j \in DOMAIN task :
        /\ i \in DKeys(done) /\ task[i].st = "none"
        /\ task[j].st = "fail_lock"

BatchesTerminate ==
    \A i \in 1..2 :
        (i \in DOMAIN task /\ task[i].st \in {"queued"} \cup Running)
            ~> (i \in DOMAIN task /\ task[i].st \in {"done", "exhausted"})

DispatcherReturns ==
    (pc \in {"collect", "shutdown", "rebuild"})
        ~> (pc = "assert" \/ (pc = "idle" /\ result \in {"BatchExhausted", "MissingBatch"}))

(* C17: when every service call comes back and the threads are scheduled       *)
(* fairly, every dispatched batch ends DONE or EXHAUSTED, and                  *)
(* translate_text_list_concurrent returns its list or raises.                  *)
C17_EveryBatchTerminates ==
    BatchesTerminate /\ DispatcherReturns

(* the pool has finished after the error: one batch exhausted, one done *)
C17_PoolDrained ==
    /\ pc = "shutdown"
    /\ \E i, j \in DOMAIN task : task[i].st = "exhausted" /\ task[j].st = "done"

(* the source characters a translated entry stands for, in order *)
RECURSIVE WordIds(_)
WordIds(t) ==
    IF t = <<>> THEN <<>>
    ELSE (IF Head(t).k = "w" THEN Head(t).s ELSE <<>>) \o WordIds(Tail(t))

(* C18: when every batch has succeeded, over the same input, the list handed   *)
(* to the reassembler has one entry per fragment, in fragment order, and the   *)
(* entry of an over-length fragment is the merged translation of its slices.   *)
C18_OneEntryPerFragment ==
    (pc = "assert" /\ sameInput) =>
        /\ Len(translations) = Len(texts)
        /\ \A i \in 1..Min(Len(texts), Len(translations)) :
              WordIds(translations[i]) = Ids(texts[i])

(* past the assertion the counts agree; a run that failed it has left the      *)
(* parsed documents as parsed and has written no document and no archive       *)
CountCheckedBeforeRefill ==
    /\ pc \in {"refill", "writeback", "rezip"} => Len(translations) = Len(texts)
    /\ (pc = "idle" /\ result = "AssertionError") =>
           /\ Len(translations) # Len(texts)
           /\ tree = ParseBook(scen.book)
           /\ written \subseteq {"selftest"}

(* the step from a list of the wrong length ends the run (or the process is    *)
(* killed), and the list is left as it was returned                            *)
MismatchStopsRun ==
    (pc = "assert" /\ Len(translations) # Len(texts)) =>
        \/ result' = "crashed"
        \/ /\ pc' = "idle" /\ result' = "AssertionError"
           /\ translations' = translations /\ tree' = tree /\ written' = written

(* C19: when the translated list and the extracted fragments differ in number, *)
(* the run stops on the assertion before any parsed document is changed and    *)
(* before anything is written; the list is never cut or padded to fit.         *)
C19_CountMismatchIsFatal ==
    []CountCheckedBeforeRefill /\ [][MismatchStopsRun]_vars

(* a run has failed the assertion with fewer translations than fragments *)
C19_AssertionFailed ==
    /\ pc = "idle" /\ result = "AssertionError"
    /\ Len(translations) < Len(texts)

(* the locations and texts of every translatable fragment of the book, in     *)
(* extraction order                                                          *)
AllFragments == Extract(ParseBook(scen.book), 0)

(* C20: after the refill of a preview run with 0 < K < total fragments, the    *)
(* first K fragments in extraction order hold their translations and every     *)
(* later fragment holds its original text.                                    *)
C20_PreviewReplacesFirstK ==
    (/\ pc \in {"writeback", "rezip"}
     /\ 0 < scen.preview_limit /\ scen.preview_limit < Len(AllFragments.texts)) =>
        \A i \in 1..Len(AllFragments.texts) :
            At(tree, AllFragments.origin[i]) =
                IF i <= scen.preview_limit THEN translations[i] ELSE AllFragments.texts[i]

(* the locations of the book whose text is no longer the parsed text *)
ChangedLocations ==
    {i \in 1..Len(AllFragments.origin) :
        At(tree, AllFragments.origin[i]) # At(ParseBook(scen.book), AllFragments.origin[i])}

(* C21: after the refill, a preview count K > 0 has changed at most K          *)
(* locations, and a preview count of 0 has changed nothing: no text node and   *)
(* no attribute of any document.                                              *)
C21_ZeroPreviewReplacesNothing ==
    pc \in {"writeback", "rezip"} =>
        IF scen.preview_limit = 0 THEN ChangedLocations = {}
        ELSE Cardinality(ChangedLocations) <= scen.preview_limit

(* how many entries of the archive have the name p *)
EntriesNamed(p) == Cardinality({j \in 1..Len(zf) : zf[j].name = p})

(* C22: when rezip_epub has ended on a tree with a top-level mimetype file,    *)
(* the first entry of the archive is mimetype, stored uncompressed (also for   *)
(* a 0-byte file); mimetype is there once, and every other file of the tree    *)
(* is there once, compressed, under its relative path.                        *)
C22_MimetypeFirstStored ==
    (pc \in {"rezip_out", "rezip_raised"} /\ MIMETYPE \in DOMAIN src_dir) =>
        /\ zf # <<>>
        /\ zf[1].name = MIMETYPE /\ zf[1].method = "ZIP_STORED"
        /\ \A p \in DOMAIN src_dir : EntriesNamed(p) = 1
        /\ \A j \in 2..Len(zf) :
              zf[j].name \in DOMAIN src_dir /\ zf[j].method = "ZIP_DEFLATED"

(* a worker still has a batch to work on *)
Unfinished == {i \in DOMAIN task : task[i].st \notin Terminal}

(* C23: in every run the documents are read (extraction) before the first     *)
(* batch is dispatched and written (replacement, serialisation) after the     *)
(* last worker has finished: while a batch is queued or in flight the run is   *)
(* inside the dispatcher, and from the extraction until the dispatcher has    *)
(* returned the extracted fragments and the documents are those of the parse  *)
(* and no document or archive has been serialised.                            *)
C23_DocumentsUntouchedDuringDispatch ==
    /\ Unfinished # {} => pc \in {"collect", "shutdown"}
    /\ pc \in {"selftest", "translate", "collect", "shutdown", "rebuild", "assert",
               "refill"} =>
          /\ tree = ParseBook(scen.book) /\ written \subseteq {"selftest"}
          /\ texts = Extract(ParseBook(scen.book), scen.preview_limit).texts
    /\ pc \in {"writeback", "rezip"} => texts = Extract(ParseBook(scen.book), scen.preview_limit).texts

(* the documents were rewritten after two workers had finished *)
C23_WrittenAfterWorkers ==
    /\ pc = "writeback" /\ tree # ParseBook(scen.book)
    /\ Cardinality({i \in DOMAIN task : task[i].st = "done"}) >= 2

Converted == steps # <<>> /\ steps[1] = "convert"

(* C25: once the conversion step is over, its fatal error has been raised if   *)
(* and only if the converter did not return 0 or the output file is missing   *)
(* or empty; and after that error the program has ended with a non-zero       *)
(* status and no later step has run.                                         *)
C25_ConversionContract ==
    (pc # "main_in" /\ Converted) =>
        /\ exit.error # "ConversionFailed" <=>
              (conv.returncode = 0 /\ conv.out.exists /\ conv.out.st_size > 0)
        /\ exit.error = "ConversionFailed" =>
              steps = <<"convert">> /\ pc = "main_exit" /\ exit.code # 0

(* the converter returned 0 and left an empty file: the run has ended there *)
C25_EmptyOutputIsFatal ==
    /\ pc = "main_exit" /\ exit.error = "ConversionFailed"
    /\ conv.returncode = 0 /\ conv.out.exists /\ conv.out.st_size = 0

(* the destination paths that hold the source file f *)
HeldAt(f) == {q \in DOMAIN fs.dst : fs.dst[q] = f}

(* every candidate is at one destination path, under its name or its name     *)
(* with a number                                                            *)
EveryFileArrived ==
    \A f \in DOMAIN mtask :
        /\ mtask[f].ok /\ f \notin fs.src
        /\ Cardinality(HeldAt(f)) = 1
        /\ \A q \in HeldAt(f) : q.stem = f.stem

(* a step leaves every file of the destination where and what it was *)
NothingReplaced ==
    \A q \in DOMAIN fs.dst : q \in DOMAIN fs.dst' /\ fs.dst'[q] = fs.dst[q]

(* C26: with on_conflict = rename, not in a dry run, whatever the number of    *)
(* workers and the interleaving: no move replaces a file that is at the       *)
(* destination, and when transfer_all has returned every candidate is at a    *)
(* destination path of its own (name, name_1, name_2, ...).                  *)
C26_RenameKeepsEveryFile ==
    /\ []((pc = "move_out" /\ args.on_conflict = "rename" /\ ~args.dry_run)
            => EveryFileArrived)
    /\ [][(args.on_conflict = "rename" /\ ~args.dry_run) => NothingReplaced]_vars

(* C27: in a dry run, under every on_conflict policy, no step moves, creates   *)
(* or deletes a file of the source or of the destination.                     *)
C27_DryRunChangesNoFile ==
    [][args.dry_run => (fs.src' = fs.src /\ fs.dst' = fs.dst)]_vars

(* C28 as amended: delete_cr3 removes an entry only if --delete was given and  *)
(* the answer, with the white space around it stripped and in lower case, is   *)
(* "yes"; otherwise nothing under the root is removed; and every removed       *)
(* entry is under the root, has the suffix .cr3 in any letter case, and is a   *)
(* regular file or a symbolic link to one.                                    *)
C28_RemovesOnlyConfirmedCr3 ==
    /\ removed # {} => opts.delete /\ opts.answer.text = "yes"
    /\ \A p \in removed :
          /\ p \in Entries /\ p \notin volume
          /\ p.suffix.text = ".cr3"
          /\ p.kind \in {"file", "symlink"}

(* C28: delete_cr3 removes a file only if --delete was given and the answer    *)
(* was 'yes'; with any other answer no file is removed, and every removed      *)
(* file is a regular file under the root with the suffix .cr3 in any case.     *)
C28_RemovesOnlyOnYes ==
    /\ removed # {} => opts.delete /\ opts.answer = [text |-> "yes", upper |-> FALSE, padded |-> FALSE]
    /\ \A p \in removed : p.suffix.text = ".cr3" /\ p.kind = "file"

(* after the answer yes an upper-case .CR3 file has been removed and the       *)
(* .jpg file is still there                                                  *)
C28_UpperCaseRemoved ==
    /\ pc = "del_out" /\ opts.answer = [text |-> "yes", upper |-> FALSE, padded |-> FALSE]
    /\ \E p \in removed : p.suffix.upper /\ p.kind = "file"
    /\ \E p \in volume : p.suffix.text = ".jpg"

(* the batches that hold a character of the fragment t *)
BatchesWith(t) ==
    {b \in 1..Len(batches) :
        \E k \in 1..Len(batches[b]) : \E c \in 1..Len(batches[b][k]) :
            \E d \in 1..Len(t) : batches[b][k][c] = t[d]}

(* C29: when a fragment longer than maxChars comes right after a fragment     *)
(* that is not (so the buffer holds at least that one), the buffered          *)
(* fragment is in a batch, and the batch after it is the first slice of the   *)
(* over-length fragment.                                                     *)
C29_BufferFlushedBeforeSlices ==
    pc = "batch_out" =>
        \A i \in 2..Len(texts) :
            (Len(texts[i]) > maxChars /\ Len(texts[i - 1]) <= maxChars) =>
                \E b \in 1..Len(batches) - 1 :
                    /\ \E k \in 1..Len(batches[b]) : batches[b][k] = texts[i - 1]
                    /\ batches[b + 1] = <<SubSeq(texts[i], 1, maxChars)>>

(* C30: a fragment of length L > maxChars is in exactly ceil(L / maxChars)     *)
(* batches, which are consecutive and hold one segment each; the segments are  *)
(* at most maxChars long, all but the last exactly maxChars, and concatenate   *)
(* to the fragment.                                                          *)
C30_OverLengthSlices ==
    pc = "batch_out" =>
        \A i \in 1..Len(texts) :
            Len(texts[i]) > maxChars =>
                LET bw == BatchesWith(texts[i])
                    n == Cardinality(bw)
                    first == CHOOSE b \in bw : \A c \in bw : b <= c
                IN  /\ n * maxChars >= Len(texts[i]) /\ (n - 1) * maxChars < Len(texts[i])
                    /\ bw = first..(first + n - 1)
                    /\ \A b \in bw :
                          /\ Len(batches[b]) = 1
                          /\ Len(batches[b][1]) <= maxChars
                          /\ b < first + n - 1 => Len(batches[b][1]) = maxChars
                    /\ Flatten([j \in 1..n |-> batches[first + j - 1][1]]) = texts[i]

(* a fragment of four characters cut for maxChars = 3, after a shorter one:   *)
(* a full slice and a last slice of one character                            *)
C30_ShortLastSlice ==
    /\ pc = "batch_out" /\ maxChars = 3 /\ Len(texts) = 3
    /\ Len(texts[1]) = 2 /\ Len(texts[2]) = 4
    /\ \E b \in 1..Len(batches) - 1 :
          Len(batches[b][1]) = 3 /\ Len(batches[b + 1][1]) = 1

RECURSIVE SumLen(_)
SumLen(b) == IF b = <<>> THEN 0 ELSE Len(Head(b)) + SumLen(Tail(b))

(* the characters a batch takes: its segments and one separator between two *)
Cost(b) == SumLen(b) + (Len(b) - 1)

(* every batch is non-empty and within the budget *)
WithinBudget == \A b \in 1..Len(batches) : batches[b] # <<>> /\ Cost(batches[b]) <= maxChars

(* a fragment that follows a buffered fragment opens a batch only when the    *)
(* buffer, one separator and the fragment would not fit                      *)
NewBatchOnlyWhenFull ==
    \A b \in 2..Len(batches) : \A i \in 2..Len(texts) :
        (/\ batches[b][1] = texts[i]
         /\ batches[b - 1][Len(batches[b - 1])] = texts[i - 1]) =>
            Cost(batches[b - 1]) + 1 + Len(texts[i]) > maxChars

(* C31: every batch of batch_texts is non-empty and within the budget (the     *)
(* lengths of its segments plus one separator between two are at most          *)
(* maxChars), and a fragment opens a new batch exactly when the buffer is      *)
(* non-empty and the buffer, one separator and the fragment exceed maxChars.   *)
C31_BudgetRespected ==
    pc = "batch_out" => WithinBudget /\ NewBatchOnlyWhenFull

(* the fragments of book b: document after document, the text nodes of a      *)
(* document in tree order, then its alt texts                                 *)
RECURSIVE DiscoveryOrderFrom(_, _)
DiscoveryOrderFrom(tr, d) ==
    IF d > Len(tr) THEN <<>>
    ELSE tr[d].nodes \o tr[d].alts \o DiscoveryOrderFrom(tr, d + 1)
DiscoveryOrder(b) == DiscoveryOrderFrom(ParseBook(b), 1)

IsPrefix(a, b) == Len(a) <= Len(b) /\ a = SubSeq(b, 1, Len(a))

(* where the character c is in the fragment list *)
PosIn(chars, c) == CHOOSE j \in 1..Len(chars) : chars[j] = c

(* the characters of the batches, batch after batch, are characters of the    *)
(* fragment list in the order of that list                                   *)
BatchesFollow(bs, ts) ==
    LET chars == Flatten(ts)
        bchars == Flatten(Flatten(bs))
    IN  /\ \A j \in 1..Len(bchars) : \E k \in 1..Len(chars) : chars[k] = bchars[j]
        /\ \A j \in 1..Len(bchars) - 1 :
              PosIn(chars, bchars[j]) < PosIn(chars, bchars[j + 1])

(* C32: the fragment list of a run is in document order and, inside a          *)
(* document, text nodes in tree order and then the alt texts (all of them in   *)
(* a full run, the first of them in a preview); the batches dispatched hold    *)
(* the fragments in that order: batch i holds the i-th group.                 *)
C32_FragmentOrderKept ==
    /\ pc # "idle" =>
          /\ IsPrefix(texts, DiscoveryOrder(scen.book))
          /\ scen.preview_limit = 0 => texts = DiscoveryOrder(scen.book)
    /\ Dispatching =>
          /\ BatchesFollow(batches, texts)
          /\ \A i \in 1..Len(batches) : batches[i] # <<>>

(* two batches are out for a book with an alt text in the first document and   *)
(* a text node in the second                                                  *)
C32_TwoDocumentsDispatched ==
    /\ pc = "collect" /\ scen.book = 1 /\ Len(batches) = 2 /\ Len(texts) = 3
    /\ \A i \in 1..2 : task[i].st = "call"

(* the translatable fragments of the documents 1..d of the tree *)
RECURSIVE FragmentsUpTo(_, _)
FragmentsUpTo(tr, d) ==
    IF d = 0 THEN 0 ELSE FragmentsUpTo(tr, d - 1) + Len(tr[d].nodes) + Len(tr[d].alts)

(* C33: with a preview limit K > 0 the extraction takes exactly min(K, total)  *)
(* fragments, the first of the discovery order; an alt text of a document is   *)
(* taken only if fewer than K fragments were taken up to its last text node;    *)
(* and a document is parsed only if the documents before it gave fewer than K. *)
C33_PreviewCounterIsGlobal ==
    (pc = "extract_out" /\ scen.preview_limit > 0) =>
        LET K == scen.preview_limit
            total == FragmentsUpTo(tree, Len(tree))
        IN  /\ Len(texts) = Min(K, total)
            /\ texts = SubSeq(DiscoveryOrderFrom(tree, 1), 1, Len(texts))
            /\ \A j \in 1..Len(alt_refs) :
                  FragmentsUpTo(tree, alt_refs[j].d - 1) + Len(tree[alt_refs[j].d].nodes) < K
            /\ parsed <= Len(tree)
            /\ \A d \in 2..parsed : FragmentsUpTo(tree, d - 1) < K
            /\ parsed < Len(tree) => FragmentsUpTo(tree, parsed) >= K

(* a preview of three fragments stopped inside the alt texts of the first of   *)
(* two documents                                                             *)
C33_CutInsideAlts ==
    /\ pc = "extract_out" /\ scen.preview_limit = 3
    /\ Len(tree) = 2 /\ Len(tree[1].nodes) = 2 /\ Len(tree[1].alts) = 2
    /\ Len(tree[2].nodes) = 1
    /\ Len(node_refs) = 2 /\ Len(alt_refs) = 1 /\ parsed = 1

(* a run that extracted no fragment is under way *)
NothingToTranslate == pc # "idle" /\ texts = <<>>

(* C34: a run whose extraction gave no fragment goes from the health check     *)
(* to the repack of the unmodified tree and ends there: no batch is made or    *)
(* dispatched, the checkpoint log is neither read nor appended to, no          *)
(* document is rewritten, and the archive is written only after the health     *)
(* check.                                                                    *)
C34_NoFragmentsRepackOnly ==
    /\ [](NothingToTranslate =>
            /\ pc \in {"selftest", "rezip_unmodified"}
            /\ batches = <<>> /\ task = <<>> /\ done = <<>> /\ outputs_by_batch = <<>>
            /\ log = logAtStart
            /\ tree = ParseBook(scen.book)
            /\ written \subseteq {"selftest"}
            /\ pc = "rezip_unmodified" => "selftest" \in written)
    /\ [][NothingToTranslate =>
            /\ log' = log /\ tree' \in {tree, <<>>} /\ task' = <<>> /\ done' = <<>>
            /\ "documents" \notin written'
            /\ pc' \in {"selftest", "rezip_unmodified", "idle"}
            /\ (pc' = "idle" /\ result' # "crashed") =>
                  result' \in {"noop", "HealthCheckFailed"}
            /\ (pc' = "idle" /\ result' = "noop") =>
                  pc = "rezip_unmodified" /\ written' \ written \in
                        {{"translated_epub"}, {"preview_epub"}}]_vars

(* a run without fragments has ended over the log an earlier run left *)
C34_EmptyBookOverOldLog ==
    /\ pc = "idle" /\ result = "noop" /\ scen.book = 3 /\ texts = <<>>
    /\ log # <<>> /\ written = {"selftest", "translated_epub"}

(* C35: a worker waits after a failed attempt only when another attempt on     *)
(* the same batch follows: no worker is in the backoff wait after the last     *)
(* allowed attempt, the exhaustion record comes directly after that attempt.   *)
C35_NoWaitAfterLastAttempt ==
    \A i \in DOMAIN task : task[i].st = "sleep" => task[i].attempt < MaxRetries

(* the parts lists a worker can accept for the batch from the service *)
ResponsesTo(batch) ==
    {AcceptResponse(o, Len(batch)).parts :
        o \in {x \in ServiceOutcomes(batch) : AcceptResponse(x, Len(batch)).ok}}

(* C36: the parts a run holds for batch i, from this run or from the           *)
(* checkpoint, are a response of the service to the segments batch i has in    *)
(* this run: a record written for other fragments, for another maxChars or     *)
(* by a preview run is never the result of a batch.                           *)
C36_PartsAnswerCurrentSegments ==
    Dispatching =>
        \A i \in 1..Len(batches) :
            i \in DKeys(outputs_by_batch) =>
                DGet(outputs_by_batch, i) \in ResponsesTo(batches[i])

(* the whole records batch i has appended in this run *)
NewRecs(i) ==
    {j \in (Len(logAtStart) + 1)..Len(log) : log[j].h = "tail" /\ log[j].rec.batch = i}

(* one record for a batch that has ended, of the kind of its end, and none     *)
(* for a batch still at work; the ok=false record only after max_retries       *)
(* attempts                                                                  *)
OneRecordPerBatch ==
    Dispatching =>
        \A i \in DOMAIN task :
            task[i].st # "none" =>
                /\ Cardinality(NewRecs(i)) <= 1
                /\ task[i].st = "done" =>
                      \E j \in NewRecs(i) : log[j].rec.ok /\ log[j].rec.parts = task[i].parts
                /\ task[i].st = "exhausted" => \E j \in NewRecs(i) : ~log[j].rec.ok
                /\ task[i].st \notin {"done", "exhausted"} => NewRecs(i) = {}
                /\ task[i].st \in {"fail_lock", "fail_write"} => task[i].attempt = MaxRetries
                /\ task[i].st \in {"ok_lock", "ok_write"} => task[i].parts # <<>>

C38_NoRequestAfterAccept ==
    \A i \in DOMAIN task : task[i].st = "call" => task[i].parts = <<>>

(* the lines of the file that are the JSON text of an ok=true record of batch  *)
(* k with parts                                                              *)
GoodLinesOf(lg, k) ==
    {j \in 1..Len(LogLines(lg)) :
        LET line == LogLines(lg)[j]
        IN  /\ IsWhole(line)
            /\ {"batch", "ok", "parts"} \subseteq DOMAIN line[1].rec
            /\ line[1].rec.batch = k /\ line[1].rec.ok /\ line[1].rec.parts # <<>>}

LastOf(S) == CHOOSE j \in S : \A m \in S : m <= j

(* done holds the batches that have a well-formed ok=true line, each with the  *)
(* parts of the last such line, and nothing else                              *)
OnlyGoodLinesHonoured ==
    Dispatching =>
        /\ \A k \in DKeys(done) : GoodLinesOf(logAtStart, k) # {}
        /\ \A k \in 1..Len(batches) :
              GoodLinesOf(logAtStart, k) # {} =>
                  /\ k \in DKeys(done)
                  /\ DGet(done, k) =
                        LogLines(logAtStart)[LastOf(GoodLinesOf(logAtStart, k))][1].rec.parts

(* C39: on resume a log line that is not valid JSON (for example one cut       *)
(* short by a crash), is not an object, lacks a batch index, has ok false or   *)
(* an empty parts list is ignored: it marks no batch done, it does not abort   *)
(* the run, and the well-formed ok=true lines around it are honoured.          *)
C39_BadLinesIgnored ==
    /\ result # "UnicodeDecodeError"
    /\ OnlyGoodLinesHonoured

====
